---------------------------- MODULE Spec2Model ----------------------------
(***************************************************************************)
(* PulseEngine: the paper-trading matching engine                          *)
(* (src/core/paper_trader/paper_trader.py) and the backtest engine         *)
(* (src/core/backtester/engine.py).                                        *)
(*                                                                         *)
(* Numbers.  The Python code computes with floats.  The model computes    *)
(* with exact rationals: an amount of money is an integer number of units  *)
(* of 1/MoneyScale, a commission rate is an integer number of              *)
(* 1/MoneyScale, prices and quantities are integers, and a quotient is a   *)
(* reduced pair <<n, d>>.  Float rounding is therefore not modelled.       *)
(*                                                                         *)
(* Optional values (Python None) are sequences of length at most one:      *)
(* <<>> is None and <<x>> is the value x.                                  *)
(***************************************************************************)
EXTENDS Integers, Sequences, FiniteSets, TLC

VARIABLES
    \* ---- PaperTrader (paper_trader.py:113-119)
    initial_capital, cash, commission, positions, orders, trade_history,
    order_counter,
    \* ---- BacktestEngine (engine.py:61-65) and the frame of run_backtest
    bt_initial_capital, bt_commission, capital, trades, equity_curve,
    data, signals, position, bar, bar_log, bt_pc, metrics,
    \* ---- the run_backtest calls that have returned on this engine
    run_log,
    \* ---- StrategyOptimizer (strategy_optimizer.py:23-25), the arguments
    \* and locals of the search in progress, and what it returned
    opt_data, results, strategy, param_grid, param_ranges, n_iterations,
    opt_metric, combos, best_metric, best_params, best_results, eval_log,
    opt_pc, opt_ret,
    \* ---- the arguments and locals of walk_forward_optimization
    \* (strategy_optimizer.py:75-126), the run_backtest calls it has made,
    \* and what it returned
    train_period, test_period, start, wf_results, train_results, wf_calls,
    wf_pc, wf_ret,
    \* ---- the frames of the run_backtest calls that workers make on the
    \* optimizer's engine
    pool

ptVars == <<initial_capital, cash, commission, positions, orders,
            trade_history, order_counter>>

btVars == <<bt_initial_capital, bt_commission, capital, trades, equity_curve,
            data, signals, position, bar, bar_log, bt_pc, metrics,
            run_log>>

optVars == <<opt_data, results, strategy, param_grid, param_ranges,
             n_iterations, opt_metric, combos, best_metric, best_params,
             best_results, eval_log, opt_pc, opt_ret, train_period,
             test_period, start, wf_results, train_results, wf_calls, wf_pc,
             wf_ret>>

wfVars == <<train_period, test_period, start, wf_results, train_results,
            wf_calls, wf_pc, wf_ret>>

vars == <<ptVars, btVars, optVars, pool>>

-----------------------------------------------------------------------------
(* Bounds and units *)

\* money is counted in units of 1/MoneyScale; the default commission 0.001
\* is one unit
MoneyScale == 1000

\* the number of orders submitted in a run of the matching engine
MaxOrders == 2

None == <<>>
Some(x) == <<x>>

\* what the callers of the matching engine pass: symbols, tick and
\* execution prices, limit prices, quantities
Symbols == {"A", "B"}
Prices == {1, 2}
LimitPrices == {1, 2}
Quantities == {1, 2}

\* the commission rate of the matching engine under test: 50 %
CommissionRates == {MoneyScale \div 2}

\* starting capitals of the matching engine, in whole currency
InitialCapitals == {3}

-----------------------------------------------------------------------------
(* Exact rationals *)

RECURSIVE GCD(_, _)
GCD(a, b) == IF b = 0 THEN a ELSE GCD(b, a % b)

Abs(x) == IF x < 0 THEN -x ELSE x

\* the quotient n / d, d # 0, as a reduced pair with a positive denominator
Rat(n, d) ==
    LET g == GCD(Abs(n), Abs(d))
        s == IF d < 0 THEN -1 ELSE 1
    IN  <<(s * n) \div g, (s * d) \div g>>


-----------------------------------------------------------------------------
(* PaperTrader: orders and positions *)

OrderTypes == {"market", "limit", "stop", "stop_limit"}
OrderSides == {"buy", "sell"}

\* variant: the order is created with its quantity already filled
NewOrderPrefilled(id, symbol, side, order_type, quantity, price, stop_price) ==
    [order_id |-> id, symbol |-> symbol, side |-> side,
     order_type |-> order_type, quantity |-> quantity, price |-> price,
     stop_price |-> stop_price, status |-> "pending",
     filled_quantity |-> quantity, filled_price |-> None]

\* Order(...) as submit_order constructs it: pending, nothing filled
NewOrder(id, symbol, side, order_type, quantity, price, stop_price) ==
    [order_id |-> id, symbol |-> symbol, side |-> side,
     order_type |-> order_type, quantity |-> quantity, price |-> price,
     stop_price |-> stop_price, status |-> "pending",
     filled_quantity |-> 0, filled_price |-> None]

\* self.positions = {}
EmptyBook == [s \in {} |-> None]

\* the book with the entry of symbol set to p
PutPosition(book, symbol, p) ==
    [s \in (DOMAIN book) \cup {symbol} |-> IF s = symbol THEN p ELSE book[s]]

\* the book without the entry of symbol
DelPosition(book, symbol) ==
    [s \in (DOMAIN book) \ {symbol} |-> book[s]]

\* variant: the plain mean of the old average and the new price
NewAvgPriceUnweighted(old, quantity, price) ==
    Rat(old.avg_price[1] + price * old.avg_price[2], 2 * old.avg_price[2])

\* avg_price after adding quantity at price to an entry of old.quantity at
\* old.avg_price: total_cost / position.quantity
NewAvgPrice(old, quantity, price) ==
    Rat(old.avg_price[1] * old.quantity + price * quantity * old.avg_price[2],
        old.avg_price[2] * (old.quantity + quantity))

_add_to_position(book, symbol, quantity, price) ==
    IF symbol \in DOMAIN book
    THEN PutPosition(book, symbol,
            [quantity |-> book[symbol].quantity + quantity,
             avg_price |-> NewAvgPrice(book[symbol], quantity, price),
             current_price |-> book[symbol].current_price])
    ELSE PutPosition(book, symbol,
            [quantity |-> quantity, avg_price |-> Rat(price, 1),
             current_price |-> price])

\* variant: the entry is deleted only once its quantity is below zero
PositionGoneBelowZero(quantity) == quantity < 0

\* variant: the entry is deleted with one share left
PositionGoneAtOne(quantity) == quantity <= 1

\* the entry is deleted once its quantity is <= 0
PositionGone(quantity) == quantity <= 0

_remove_from_position(book, symbol, quantity) ==
    IF symbol \notin DOMAIN book
    THEN book
    ELSE LET left == book[symbol].quantity - quantity
         IN  IF PositionGone(left)
             THEN DelPosition(book, symbol)
             ELSE PutPosition(book, symbol,
                              [book[symbol] EXCEPT !.quantity = left])

-----------------------------------------------------------------------------
(* PaperTrader.execute_order *)

\* order.quantity * execution_price, in money units
TradeValue(order, execution_price) ==
    order.quantity * execution_price * MoneyScale

\* trade_value * self.commission
CommissionCost(trade_value, rate) == (trade_value \div MoneyScale) * rate

\* variants of the cash check: against the starting capital instead of the
\* cash left, and rejecting a buy that takes exactly the cash left
InsufficientCashVsInitial(total_cost, available) ==
    total_cost > initial_capital
InsufficientCashStrict(total_cost, available) == total_cost >= available

\* a buy is rejected when total_cost > self.cash
InsufficientCash(total_cost, available) == total_cost > available

\* variant: a sell of exactly the held quantity is rejected too
InsufficientSharesStrict(wanted, held) == wanted >= held

\* a sell is rejected when order.quantity > position.quantity
InsufficientShares(wanted, held) == wanted > held

\* variant: the commission is not taken from the proceeds of a sell
SellProceedsGross(trade_value, commission_cost) == trade_value

\* what a buy takes from cash and what a sell adds to it
BuyCost(trade_value, commission_cost) == trade_value + commission_cost
SellProceeds(trade_value, commission_cost) == trade_value - commission_cost

\* the order after a fill (filled_at is a wall-clock time, not modelled)
FilledOrder(order, execution_price) ==
    [order EXCEPT !.status = "filled",
                  !.filled_quantity = order.quantity,
                  !.filled_price = Some(execution_price)]

TradeRecord(order, execution_price, commission_cost) ==
    [order_id |-> order.order_id, symbol |-> order.symbol,
     side |-> order.side, quantity |-> order.quantity,
     price |-> execution_price, commission |-> commission_cost]

\* variant: no guard, every order counts as pending
IsPendingAlways(order) == TRUE

\* variant: a rejected order can be executed again
IsPendingOrRejected(order) == order.status \in {"pending", "rejected"}

\* the guard at the top of execute_order
IsPending(order) == order.status = "pending"

\* variant: a rejection is logged in the trade history too
RejectedWithRecord(st, i) ==
    [st |-> [st EXCEPT !.orders[i].status = "rejected",
                       !.trade_history =
                           Append(st.trade_history,
                                  TradeRecord(st.orders[i], 0, 0))],
     ret |-> FALSE]

\* st is the trader's mutable state [cash, positions, orders,
\* trade_history]; the result is the state after the call and its return
\* value
Rejected(st, i) ==
    [st |-> [st EXCEPT !.orders[i].status = "rejected"], ret |-> FALSE]

Filled(st, i, execution_price, newCash, newBook, commission_cost) ==
    [st |-> [cash |-> newCash,
             positions |-> newBook,
             orders |-> [st.orders EXCEPT
                            ![i] = FilledOrder(st.orders[i], execution_price)],
             trade_history |-> Append(st.trade_history,
                 TradeRecord(st.orders[i], execution_price, commission_cost))],
     ret |-> TRUE]

execute_order(st, i, execution_price) ==
    LET order == st.orders[i]
        trade_value == TradeValue(order, execution_price)
        commission_cost == CommissionCost(trade_value, commission)
    IN  IF ~IsPending(order)
        THEN [st |-> st, ret |-> FALSE]
        ELSE IF order.side = "buy"
        THEN LET total_cost == BuyCost(trade_value, commission_cost)
             IN  IF InsufficientCash(total_cost, st.cash)
                 THEN Rejected(st, i)
                 ELSE Filled(st, i, execution_price, st.cash - total_cost,
                             _add_to_position(st.positions, order.symbol,
                                              order.quantity, execution_price),
                             commission_cost)
        ELSE IF order.symbol \notin DOMAIN st.positions
        THEN Rejected(st, i)
        ELSE IF InsufficientShares(order.quantity,
                                   st.positions[order.symbol].quantity)
        THEN Rejected(st, i)
        ELSE Filled(st, i, execution_price,
                    st.cash + SellProceeds(trade_value, commission_cost),
                    _remove_from_position(st.positions, order.symbol,
                                          order.quantity),
                    commission_cost)

\* variant: a market order executes at the price 1, not at the tick price
MarketExecutesAtOne(st, i, current_price) == execute_order(st, i, 1)

process_market_order(st, i, current_price) ==
    execute_order(st, i, current_price)

\* variant: a limit buy needs a tick strictly below its limit
LimitBuyTriggeredStrict(current_price, limit) == current_price < limit

\* variant: a limit sell needs a tick strictly above its limit
LimitSellTriggeredStrict(current_price, limit) == current_price > limit

\* the price conditions of process_limit_order
LimitBuyTriggered(current_price, limit) == current_price <= limit
LimitSellTriggered(current_price, limit) == current_price >= limit

process_limit_order(st, i, current_price) ==
    LET order == st.orders[i]
    IN  IF order.price = None
        THEN [st |-> st, ret |-> FALSE]
        ELSE IF order.side = "buy"
                /\ LimitBuyTriggered(current_price, order.price[1])
        THEN execute_order(st, i, order.price[1])
        ELSE IF order.side = "sell"
                /\ LimitSellTriggered(current_price, order.price[1])
        THEN execute_order(st, i, order.price[1])
        ELSE [st |-> st, ret |-> FALSE]

-----------------------------------------------------------------------------
(* PaperTrader.update_market_data *)

\* variant: marking also moves the average price to the quote
MarkPositionsRevalued(book, prices) ==
    [s \in DOMAIN book |->
        IF s \in DOMAIN prices
        THEN [book[s] EXCEPT !.current_price = prices[s],
                             !.avg_price = Rat(prices[s], 1)]
        ELSE book[s]]

\* first loop: the mark price of every held position whose symbol is quoted
MarkPositions(book, prices) ==
    [s \in DOMAIN book |->
        IF s \in DOMAIN prices
        THEN [book[s] EXCEPT !.current_price = prices[s]]
        ELSE book[s]]

\* variant: stop and stop-limit orders are matched like market orders
ProcessOneStopsAsMarket(st, prices, i) ==
    LET order == st.orders[i]
    IN  IF ~IsPending(order) THEN st
        ELSE IF order.symbol \notin DOMAIN prices THEN st
        ELSE IF order.order_type = "limit"
        THEN process_limit_order(st, i, prices[order.symbol]).st
        ELSE process_market_order(st, i, prices[order.symbol]).st

\* one iteration of the second loop, for the order at index i
ProcessOne(st, prices, i) ==
    LET order == st.orders[i]
    IN  IF ~IsPending(order) THEN st
        ELSE IF order.symbol \notin DOMAIN prices THEN st
        ELSE IF order.order_type = "market"
        THEN process_market_order(st, i, prices[order.symbol]).st
        ELSE IF order.order_type = "limit"
        THEN process_limit_order(st, i, prices[order.symbol]).st
        ELSE st

\* variant: the orders are visited from the last submitted to the first
RECURSIVE ProcessRangeBackwards(_, _, _, _)
ProcessRangeBackwards(st, prices, i, n) ==
    IF i > n
    THEN st
    ELSE ProcessOne(ProcessRangeBackwards(st, prices, i + 1, n), prices, i)

\* the second loop, over self.orders in list order, for the orders at
\* indexes i..n
RECURSIVE ProcessRange(_, _, _, _)
ProcessRange(st, prices, i, n) ==
    IF i > n
    THEN st
    ELSE ProcessRange(ProcessOne(st, prices, i), prices, i + 1, n)

ProcessPending(st, prices, i) == ProcessRange(st, prices, i, Len(st.orders))

update_market_data(st, prices) ==
    ProcessPending([st EXCEPT !.positions = MarkPositions(st.positions, prices)],
                   prices, 1)

\* variant: the status of the order is not looked at
CancelIndexAnyStatus(ords, order_id) ==
    {i \in 1..Len(ords) : ords[i].order_id = order_id}

\* cancel_order: the first order with that id that is pending
CancelIndex(ords, order_id) ==
    {i \in 1..Len(ords) : ords[i].order_id = order_id /\ IsPending(ords[i])}

cancel_order(st, order_id) ==
    IF CancelIndex(st.orders, order_id) = {}
    THEN [st |-> st, ret |-> FALSE]
    ELSE LET i == CHOOSE j \in CancelIndex(st.orders, order_id) :
                     \A k \in CancelIndex(st.orders, order_id) : j <= k
         IN  [st |-> [st EXCEPT !.orders[i].status = "cancelled"],
              ret |-> TRUE]

-----------------------------------------------------------------------------
(* PaperTrader: the calls *)

\* the trader's mutable state as one value
Trader ==
    [cash |-> cash, positions |-> positions, orders |-> orders,
     trade_history |-> trade_history]

\* the state after a call that left the trader as st
Becomes(st) ==
    /\ cash' = st.cash
    /\ positions' = st.positions
    /\ orders' = st.orders
    /\ trade_history' = st.trade_history
    /\ UNCHANGED <<initial_capital, commission>>

\* the orders callers submit, as <<symbol, side, order_type, quantity,
\* price, stop_price>>: market orders of A in every side and quantity, a
\* market buy of one B, limit buys and limit sells of one A at every limit
\* price, and, as orders of one A, a limit order without a price, a stop
\* and a stop-limit order
SubmitArgs ==
    {<<"A", side, "market", q, None, None>> :
        side \in OrderSides, q \in Quantities}
    \cup {<<"B", "buy", "market", 1, None, None>>}
    \cup {<<"A", "buy", "limit", 1, Some(lp), None>> : lp \in LimitPrices}
    \cup {<<"A", "sell", "limit", 1, Some(lp), None>> : lp \in LimitPrices}
    \cup {<<"A", "buy", "limit", 1, None, None>>,
          <<"A", "buy", "stop", 1, None, Some(1)>>,
          <<"A", "sell", "stop_limit", 1, Some(2), Some(1)>>}

\* the price maps callers pass to update_market_data
PriceMaps == UNION {[S -> Prices] : S \in SUBSET Symbols}

SubmitOrder(symbol, side, order_type, quantity, price, stop_price) ==
    /\ order_counter < MaxOrders
    /\ order_counter' = order_counter + 1
    /\ orders' = Append(orders,
                    NewOrder(order_counter + 1, symbol, side, order_type,
                             quantity, price, stop_price))
    /\ UNCHANGED <<initial_capital, cash, commission, positions,
                   trade_history>>

ExecuteOrder(i, execution_price) ==
    LET r == execute_order(Trader, i, execution_price)
    IN  /\ Becomes(r.st)
        /\ UNCHANGED order_counter

ProcessMarketOrder(i, current_price) ==
    LET r == process_market_order(Trader, i, current_price)
    IN  /\ Becomes(r.st)
        /\ UNCHANGED order_counter

ProcessLimitOrder(i, current_price) ==
    LET r == process_limit_order(Trader, i, current_price)
    IN  /\ Becomes(r.st)
        /\ UNCHANGED order_counter

UpdateMarketData(prices) ==
    /\ Becomes(update_market_data(Trader, prices))
    /\ UNCHANGED order_counter

CancelOrder(order_id) ==
    LET r == cancel_order(Trader, order_id)
    IN  /\ Becomes(r.st)
        /\ UNCHANGED order_counter

\* PaperTrader.__init__
TraderConstructed(cap, rate) ==
    /\ initial_capital = cap * MoneyScale
    /\ cash = cap * MoneyScale
    /\ commission = rate
    /\ positions = EmptyBook
    /\ orders = << >>
    /\ trade_history = << >>
    /\ order_counter = 0

-----------------------------------------------------------------------------
(* BacktestEngine: one bar of run_backtest *)

\* a > b for quotients a = <<n, d>>, b = <<m, e>> with n, m >= 0 and
\* d, e > 0, by comparing integer parts (no product of two amounts)
RECURSIVE RatGT(_, _)
RatGT(a, b) ==
    LET qa == a[1] \div a[2]
        qb == b[1] \div b[2]
        ra == a[1] % a[2]
        rb == b[1] % b[2]
    IN  IF qa # qb THEN qa > qb
        ELSE IF ra = 0 THEN FALSE
        ELSE IF rb = 0 THEN TRUE
        ELSE RatGT(<<b[2], rb>>, <<a[2], ra>>)

\* signals.iloc[i] if i < len(signals) else 0, for the bar at index i (from 1)
SignalAt(sigs, i) == IF i <= Len(sigs) THEN sigs[i] ELSE 0

\* variant: the whole capital is used to size the entry
EntryQuantityAllIn(cap, close) == cap \div (MoneyScale * close)

\* int(self.capital * 0.95 / close): floor(cap * 19 / (20 * close)), with
\* cap in money units, computed from quotient and remainder by the divisor
EntryQuantity(cap, close) ==
    LET dv == 20 * MoneyScale * close
    IN  19 * (cap \div dv) + (19 * (cap % dv)) \div dv

\* variant: no commission is taken from the proceeds of an exit
ExitProceedsGross(quantity, close, rate) == quantity * close * MoneyScale

\* variant: no commission is added to the cost of an entry
EntryCostGross(quantity, close, rate) == quantity * close * MoneyScale

\* quantity * close * (1 + commission) and quantity * close * (1 - commission)
EntryCost(quantity, close, rate) == quantity * close * (MoneyScale + rate)
ExitProceeds(quantity, close, rate) == quantity * close * (MoneyScale - rate)

\* variant: the position is opened whatever it costs
CanAffordAlways(cost, cap) == TRUE

\* the position is opened only if cost <= self.capital
CanAfford(cost, cap) == cost <= cap

\* Trade(symbol="SYMBOL", entry_time=idx, entry_price=close, quantity, "long")
OpenTrade(idx, close, quantity) ==
    [symbol |-> "SYMBOL", entry_time |-> idx, entry_price |-> close,
     quantity |-> quantity, side |-> "long",
     exit_time |-> None, exit_price |-> None]

ClosedTrade(t, idx, close) ==
    [t EXCEPT !.exit_time = Some(idx), !.exit_price = Some(close)]

\* variant: the equity point carries the capital alone
CurrentValueCashOnly(cap, pos, close) == cap

\* current_value of the equity point: capital, plus
\* (close - entry_price) * quantity when a position is open
CurrentValue(cap, pos, close) ==
    IF pos = None
    THEN cap
    ELSE cap + (close - pos[1].entry_price) * pos[1].quantity * MoneyScale

EquityPoint(idx, cap, pos, close) ==
    [timestamp |-> idx, equity |-> CurrentValue(cap, pos, close),
     capital |-> cap]

\* variant: a buy signal enters whether or not a position is open
WantsEntryAlways(signal, pos) == signal > 0

\* the branch taken on a bar
WantsEntry(signal, pos) == signal > 0 /\ pos = None
WantsExit(signal, pos) == signal < 0 /\ pos # None

\* the body of the for loop for the bar at index i: e is the engine's
\* [capital, trades, equity_curve, position]
BarBody(e, i, close, signal, rate) ==
    LET logged == [e EXCEPT !.equity_curve =
                       Append(e.equity_curve,
                              EquityPoint(i, e.capital, e.position, close))]
        quantity == EntryQuantity(e.capital, close)
        cost == EntryCost(quantity, close, rate)
    IN  IF WantsEntry(signal, e.position)
        THEN IF CanAfford(cost, e.capital)
             THEN [logged EXCEPT
                      !.position = Some(OpenTrade(i, close, quantity)),
                      !.capital = e.capital - cost]
             ELSE logged
        ELSE IF WantsExit(signal, e.position)
        THEN [logged EXCEPT
                 !.capital = e.capital
                     + ExitProceeds(e.position[1].quantity, close, rate),
                 !.trades = Append(e.trades,
                                   ClosedTrade(e.position[1], i, close)),
                 !.position = None]
        ELSE logged

\* variant: nothing is closed after the loop
ForceCloseSkipped(e, closes, rate) == e

\* after the loop: close any open position at the last bar's close (the
\* local position still names the trade, now closed)
ForceClose(e, closes, rate) ==
    IF e.position # None
    THEN LET last_price == closes[Len(closes)]
         IN  [e EXCEPT
                 !.capital = e.capital
                     + ExitProceeds(e.position[1].quantity, last_price, rate),
                 !.trades = Append(e.trades,
                                   ClosedTrade(e.position[1], Len(closes),
                                               last_price)),
                 !.position = Some(ClosedTrade(e.position[1], Len(closes),
                                               last_price))]
    ELSE e

-----------------------------------------------------------------------------
(* BacktestEngine: metrics *)

\* Trade.pnl of a closed long trade, in money units
Pnl(t) == (t.exit_price[1] - t.entry_price) * t.quantity * MoneyScale

RECURSIVE SumPnl(_)
SumPnl(ts) == IF ts = << >> THEN 0 ELSE Pnl(Head(ts)) + SumPnl(Tail(ts))

Winning(ts) == SelectSeq(ts, LAMBDA t : Pnl(t) > 0)
Losing(ts) == SelectSeq(ts, LAMBDA t : Pnl(t) < 0)

\* the loop of _calculate_max_drawdown from point i on, with the running
\* peak and the largest drawdown so far (a quotient)
RECURSIVE DrawdownLoop(_, _, _, _)
DrawdownLoop(curve, i, peak, max_dd) ==
    IF i > Len(curve)
    THEN max_dd
    ELSE LET value == curve[i].equity
             pk == IF value > peak THEN value ELSE peak
             dd == <<pk - value, pk>>
         IN  DrawdownLoop(curve, i + 1, pk,
                          IF RatGT(dd, max_dd) THEN Rat(dd[1], dd[2])
                          ELSE max_dd)

_calculate_max_drawdown(curve) ==
    IF curve = << >>
    THEN <<0, 1>>
    ELSE DrawdownLoop(curve, 1, curve[1].equity, <<0, 1>>)

\* the mapping returned when self.trades is empty
NoTradeMetrics(cap) ==
    [total_trades |-> 0, winning_trades |-> 0, losing_trades |-> 0,
     total_pnl |-> 0, total_return |-> <<0, 1>>, win_rate |-> <<0, 1>>,
     avg_win |-> <<0, 1>>, avg_loss |-> <<0, 1>>,
     profit_factor |-> <<0, 1>>, final_capital |-> cap]

\* variant: with no gross loss a gross profit gives an unbounded factor
ProfitFactorUnbounded(gross_profit, gross_loss) ==
    IF gross_loss > 0 THEN Rat(gross_profit, gross_loss)
    ELSE IF gross_profit > 0 THEN <<1, 0>> ELSE <<0, 1>>

\* gross_profit / gross_loss if gross_loss > 0 else 0
ProfitFactor(gross_profit, gross_loss) ==
    IF gross_loss > 0 THEN Rat(gross_profit, gross_loss) ELSE <<0, 1>>

_calculate_metrics(ts, curve, cap, initial) ==
    IF ts = << >>
    THEN NoTradeMetrics(cap)
    ELSE LET winning_trades == Winning(ts)
             losing_trades == Losing(ts)
         IN  [total_trades |-> Len(ts),
              winning_trades |-> Len(winning_trades),
              losing_trades |-> Len(losing_trades),
              total_pnl |-> SumPnl(ts),
              total_return |-> Rat(cap - initial, initial),
              win_rate |-> Rat(Len(winning_trades), Len(ts)),
              avg_win |-> IF winning_trades # << >>
                          THEN Rat(SumPnl(winning_trades), Len(winning_trades))
                          ELSE <<0, 1>>,
              avg_loss |-> IF losing_trades # << >>
                           THEN Rat(Abs(SumPnl(losing_trades)),
                                    Len(losing_trades))
                           ELSE <<0, 1>>,
              profit_factor |-> ProfitFactor(SumPnl(winning_trades),
                                             Abs(SumPnl(losing_trades))),
              final_capital |-> cap,
              max_drawdown |-> _calculate_max_drawdown(curve)]

-----------------------------------------------------------------------------
(* BacktestEngine: the call run_backtest(data, strategy, params) *)

MaxBars == 3

\* the end-to-end scenario of the design: 100,000 at 0.1 % commission,
\* closes 100 then 110, signals buy then sell
ScenarioCapital == 100000
ScenarioData == <<100, 110>>
ScenarioSignals == <<1, -1>>

\* a series with two round trips, a rise from 1 to 2 and a fall from 3 to
\* 1, under signals that trade both
RoundTripData == <<1, 2, 3, 1>>
RoundTripSignals == <<1, -1, 1, -1>>

SeqsUpTo(S, n) == UNION {[1..k -> S] : k \in 0..n}

\* starting capitals (whole currency) and commission rates of the engines
\* under test: 0, 0.1 % and 10 %
BtCloses == {1, 2, 3}
BtCapitals == {2, 20}
BtRates == {0, 1, MoneyScale \div 10}
BtConfigs == (BtCapitals \X BtRates) \cup {<<ScenarioCapital, 1>>}

\* the series (closing prices) and the signals the strategy returns for
\* it; a strategy may return fewer signals than there are bars
BtInputs(initial) ==
    IF initial = ScenarioCapital * MoneyScale
    THEN {<<ScenarioData, ScenarioSignals>>}
    ELSE {<<d, s>> \in SeqsUpTo(BtCloses, MaxBars)
                        \X SeqsUpTo({-1, 0, 1}, MaxBars) : Len(s) <= Len(d)}
         \cup {<<RoundTripData, RoundTripSignals>>}

\* the engine's mutable state and the local position as one value
Engine ==
    [capital |-> capital, trades |-> trades, equity_curve |-> equity_curve,
     position |-> position]

\* BacktestEngine.__init__
EngineConstructed(cap, rate) ==
    /\ bt_initial_capital = cap * MoneyScale
    /\ bt_commission = rate
    /\ capital = cap * MoneyScale
    /\ trades = << >>
    /\ equity_curve = << >>
    /\ data = << >>
    /\ signals = << >>
    /\ position = None
    /\ bar = 0
    /\ bar_log = << >>
    /\ bt_pc = "idle"
    /\ metrics = None
    /\ run_log = << >>

\* variant: the call starts from what the last call left
RunBacktestNoReset(d, s) ==
    /\ bt_pc \in {"idle", "done"}
    /\ data' = d
    /\ signals' = s
    /\ position' = None
    /\ bar' = 1
    /\ bar_log' = << >>
    /\ bt_pc' = "loop"
    /\ metrics' = None
    /\ UNCHANGED <<bt_initial_capital, bt_commission, capital, trades,
                   equity_curve, run_log>>

\* entry, on a new engine or on one whose last call has returned: the
\* three resets, the strategy's signals, position = None
RunBacktest(d, s) ==
    /\ bt_pc \in {"idle", "done"}
    /\ capital' = bt_initial_capital
    /\ trades' = << >>
    /\ equity_curve' = << >>
    /\ data' = d
    /\ signals' = s
    /\ position' = None
    /\ bar' = 1
    /\ bar_log' = << >>
    /\ bt_pc' = "loop"
    /\ metrics' = None
    /\ UNCHANGED <<bt_initial_capital, bt_commission, run_log>>

\* one iteration of the loop over data.iterrows(); bar_log keeps, per bar,
\* what the iteration started from
BarStep ==
    /\ bt_pc = "loop"
    /\ bar <= Len(data)
    /\ LET e == BarBody(Engine, bar, data[bar], SignalAt(signals, bar),
                        bt_commission)
       IN  /\ capital' = e.capital
           /\ trades' = e.trades
           /\ equity_curve' = e.equity_curve
           /\ position' = e.position
    /\ bar_log' = Append(bar_log, [position |-> position, capital |-> capital,
                                   signal |-> SignalAt(signals, bar)])
    /\ bar' = bar + 1
    /\ UNCHANGED <<bt_initial_capital, bt_commission, data, signals, bt_pc,
                   metrics, run_log>>

\* after the loop: the forced close, then return self._calculate_metrics()
ReturnMetrics ==
    /\ bt_pc = "loop"
    /\ bar > Len(data)
    /\ LET e == ForceClose(Engine, data, bt_commission)
           ret == _calculate_metrics(e.trades, equity_curve, e.capital,
                                     bt_initial_capital)
       IN  /\ capital' = e.capital
           /\ trades' = e.trades
           /\ position' = e.position
           /\ metrics' = Some(ret)
           /\ run_log' = Append(run_log, [data |-> data, signals |-> signals,
                                          metrics |-> ret])
    /\ bt_pc' = "done"
    /\ UNCHANGED <<bt_initial_capital, bt_commission, equity_curve, data,
                   signals, bar, bar_log>>

-----------------------------------------------------------------------------
(* BacktestEngine.run_backtest as one call *)

\* the for loop over the bars i..Len(closes)
RECURSIVE BarLoop(_, _, _, _, _)
BarLoop(e, closes, sigs, i, rate) ==
    IF i > Len(closes)
    THEN e
    ELSE BarLoop(BarBody(e, i, closes[i], SignalAt(sigs, i), rate),
                 closes, sigs, i + 1, rate)

\* the three resets and position = None
FreshRun(initial) ==
    [capital |-> initial, trades |-> << >>, equity_curve |-> << >>,
     position |-> None]

\* the engine as the call leaves it, and the metrics it returns
run_backtest(initial, rate, closes, sigs) ==
    LET e == ForceClose(BarLoop(FreshRun(initial), closes, sigs, 1, rate),
                        closes, rate)
    IN  [e |-> e,
         ret |-> _calculate_metrics(e.trades, e.equity_curve, e.capital,
                                    initial)]

-----------------------------------------------------------------------------
(* StrategyOptimizer: grid_search and monte_carlo_simulation *)

\* a > b for quotients of either sign with positive denominators
RatSignedGT(a, b) ==
    IF a[1] >= 0 /\ b[1] >= 0 THEN RatGT(a, b)
    ELSE IF a[1] >= 0 THEN TRUE
    ELSE IF b[1] >= 0 THEN FALSE
    ELSE RatGT(<<-b[1], b[2]>>, <<-a[1], a[2]>>)

\* variant: the first list varies fastest
ProductStepFirstFastest(result, values) ==
    [k \in 1..(Len(result) * Len(values)) |->
        Append(result[((k - 1) % Len(result)) + 1],
               values[((k - 1) \div Len(result)) + 1])]

\* itertools.product: result = [x + [y] for x in result for y in values],
\* one list of values after the other, starting from [[]]
ProductStep(result, values) ==
    [k \in 1..(Len(result) * Len(values)) |->
        Append(result[((k - 1) \div Len(values)) + 1],
               values[((k - 1) % Len(values)) + 1])]

RECURSIVE ProductFold(_, _)
ProductFold(result, pools) ==
    IF pools = << >>
    THEN result
    ELSE ProductFold(ProductStep(result, Head(pools)), Tail(pools))

product(pools) == ProductFold(<< << >> >>, pools)

\* param_grid is the dict as the list of its items <<name, values>>, in
\* insertion order
param_names(grid) == [k \in 1..Len(grid) |-> grid[k][1]]
param_values(grid) == [k \in 1..Len(grid) |-> grid[k][2]]

\* dict(zip(param_names, combination))
ZipParams(names, combination) ==
    [n \in {names[k] : k \in 1..Len(names)} |->
        combination[CHOOSE k \in 1..Len(names) : names[k] = n]]

\* what strategy(data, params) does for one params: it raises, or it
\* returns a pattern of signals cut to the length of the series
Raises == [raises |-> TRUE, pattern |-> << >>]
Returns(pattern) == [raises |-> FALSE, pattern |-> pattern]

RuleSignals(rule, closes) ==
    SubSeq(rule.pattern, 1,
           IF Len(rule.pattern) < Len(closes) THEN Len(rule.pattern)
           ELSE Len(closes))

\* results['params'] = params
Tagged(res, params) ==
    [k \in (DOMAIN res) \cup {"params"} |->
        IF k = "params" THEN params ELSE res[k]]

\* variant: a tie replaces the best so far
BetterOrEqual(value, best) ==
    best = None \/ ~RatSignedGT(best[1], value)

\* results[metric] > best_metric, best_metric starting at -inf (None)
Better(value, best) == best = None \/ RatSignedGT(value, best[1])

\* the body of the try block for params: o is the optimizer's
\* [results, best, engine, raised]
Evaluate(o, strat, closes, initial, rate, metric, params) ==
    IF strat[params].raises
    THEN \* strategy(data, params) raises after the three resets
         [o EXCEPT !.engine = FreshRun(initial), !.raised = TRUE]
    ELSE LET run == run_backtest(initial, rate, closes,
                                 RuleSignals(strat[params], closes))
             res == Tagged(run.ret, params)
             kept == [o EXCEPT !.engine = run.e,
                               !.results = Append(o.results, res)]
         IN  IF metric \notin DOMAIN res
             THEN \* results[metric] raises KeyError after the append
                  [kept EXCEPT !.raised = TRUE]
             ELSE IF Better(res[metric], o.best.best_metric)
             THEN [kept EXCEPT !.raised = FALSE,
                               !.best = [best_metric |-> Some(res[metric]),
                                         best_params |-> Some(params),
                                         best_results |-> Some(res)]]
             ELSE [kept EXCEPT !.raised = FALSE]

\* the optimizer's results and running best and its engine, as one value
Optimizer ==
    [results |-> results,
     best |-> [best_metric |-> best_metric, best_params |-> best_params,
               best_results |-> best_results],
     engine |-> [capital |-> capital, trades |-> trades,
                 equity_curve |-> equity_curve, position |-> None],
     raised |-> FALSE]

\* the state after a loop iteration that left the optimizer as o, having
\* called run_backtest with params
Evaluated(o, params) ==
    /\ results' = o.results
    /\ best_metric' = o.best.best_metric
    /\ best_params' = o.best.best_params
    /\ best_results' = o.best.best_results
    /\ capital' = o.engine.capital
    /\ trades' = o.engine.trades
    /\ equity_curve' = o.engine.equity_curve
    /\ eval_log' = Append(eval_log, [params |-> params, raised |-> o.raised])

\* the workers of a pool that evaluates grid cells, each by a call of
\* self.backtest_engine.run_backtest, and the frame of a call not yet made
Workers == {1, 2}
IdleFrame ==
    [pc |-> "idle", signals |-> << >>, position |-> None, bar |-> 0,
     ret |-> None]

\* StrategyOptimizer.__init__
OptimizerConstructed(closes) ==
    /\ opt_data = closes
    /\ results = << >>
    /\ strategy = << >>
    /\ param_grid = << >>
    /\ param_ranges = << >>
    /\ n_iterations = 0
    /\ opt_metric = "total_return"
    /\ combos = << >>
    /\ best_metric = None
    /\ best_params = None
    /\ best_results = None
    /\ eval_log = << >>
    /\ opt_pc = "idle"
    /\ opt_ret = None
    /\ train_period = 0
    /\ test_period = 0
    /\ start = 0
    /\ wf_results = << >>
    /\ train_results = None
    /\ wf_calls = << >>
    /\ wf_pc = "idle"
    /\ wf_ret = None
    /\ pool = [w \in Workers |-> IdleFrame]

\* grid_search, up to the loop: self.results = [], the combinations, the
\* running best
GridSearch(strat, grid, metric) ==
    /\ opt_pc = "idle"
    /\ strategy' = strat
    /\ results' = << >>
    /\ param_grid' = grid
    /\ opt_metric' = metric
    /\ combos' = product(param_values(grid))
    /\ best_metric' = None
    /\ best_params' = None
    /\ best_results' = None
    /\ eval_log' = << >>
    /\ opt_pc' = "grid"
    /\ opt_ret' = None
    /\ UNCHANGED <<opt_data, param_ranges, n_iterations>>
    /\ UNCHANGED <<capital, trades, equity_curve>>

\* one iteration of the loop over product(*param_values)
GridStep ==
    /\ opt_pc = "grid"
    /\ combos # << >>
    /\ LET params == ZipParams(param_names(param_grid), Head(combos))
       IN  Evaluated(Evaluate(Optimizer, strategy, opt_data,
                              bt_initial_capital, bt_commission, opt_metric,
                              params),
                     params)
    /\ combos' = Tail(combos)
    /\ UNCHANGED <<opt_data, strategy, param_grid, param_ranges,
                   n_iterations, opt_metric, opt_pc, opt_ret>>

\* the mapping grid_search returns
GridReturn ==
    /\ opt_pc = "grid"
    /\ combos = << >>
    /\ opt_ret' = Some([best_params |-> best_params,
                        best_metric |-> best_metric,
                        best_results |-> best_results,
                        all_results |-> results])
    /\ opt_pc' = "done"
    /\ UNCHANGED <<opt_data, results, strategy, param_grid, param_ranges,
                   n_iterations, opt_metric, combos, best_metric,
                   best_params, best_results, eval_log>>
    /\ UNCHANGED <<capital, trades, equity_curve>>

\* variant: the upper end handed to randint is itself drawn
RandIntClosed(min_val, max_val_plus_1) == min_val..max_val_plus_1

\* param_ranges is the dict as the list of its items <<name, min_val,
\* max_val>>, both bounds Python ints: np.random.randint(min_val,
\* max_val + 1) draws from min_val..max_val
RandInt(min_val, max_val_plus_1) == min_val..(max_val_plus_1 - 1)

\* the params one iteration can draw
Samples(ranges) ==
    {ps \in [{ranges[k][1] : k \in 1..Len(ranges)} ->
                 UNION {RandInt(ranges[k][2], ranges[k][3] + 1) :
                            k \in 1..Len(ranges)}] :
        \A k \in 1..Len(ranges) :
            ps[ranges[k][1]] \in RandInt(ranges[k][2], ranges[k][3] + 1)}

RECURSIVE SumSeq(_)
SumSeq(xs) == IF xs = << >> THEN 0 ELSE Head(xs) + SumSeq(Tail(xs))

\* _analyze_param_distribution: per parameter of the first result, the
\* mean of the sampled values (np.std and np.corrcoef take square roots
\* and are not modelled); "raise" when a recorded result lacks the metric
_analyze_param_distribution(rs, metric) ==
    IF rs = << >>
    THEN Some(<< >>)
    ELSE IF DOMAIN rs[1].params = {}
    THEN Some(<< >>)
    ELSE IF \E k \in 1..Len(rs) : metric \notin DOMAIN rs[k]
    THEN None
    ELSE Some([n \in DOMAIN rs[1].params |->
                 [mean |-> Rat(SumSeq([k \in 1..Len(rs) |-> rs[k].params[n]]),
                               Len(rs))]])

\* monte_carlo_simulation, up to the loop
MonteCarloSimulation(strat, ranges, n, metric) ==
    /\ opt_pc = "idle"
    /\ strategy' = strat
    /\ results' = << >>
    /\ param_ranges' = ranges
    /\ n_iterations' = n
    /\ opt_metric' = metric
    /\ best_metric' = None
    /\ best_params' = None
    /\ best_results' = None
    /\ eval_log' = << >>
    /\ opt_pc' = "monte_carlo"
    /\ opt_ret' = None
    /\ UNCHANGED <<opt_data, param_grid, combos>>
    /\ UNCHANGED <<capital, trades, equity_curve>>

\* one iteration of the loop over range(n_iterations), drawing params
MonteCarloStep(params) ==
    /\ opt_pc = "monte_carlo"
    /\ Len(eval_log) < n_iterations
    /\ Evaluated(Evaluate(Optimizer, strategy, opt_data, bt_initial_capital,
                          bt_commission, opt_metric, params),
                 params)
    /\ UNCHANGED <<opt_data, strategy, param_grid, param_ranges,
                   n_iterations, opt_metric, combos, opt_pc, opt_ret>>

\* the mapping monte_carlo_simulation returns, or the error that
\* _analyze_param_distribution raises
MonteCarloReturn ==
    /\ opt_pc = "monte_carlo"
    /\ Len(eval_log) >= n_iterations
    /\ LET dist == _analyze_param_distribution(results, opt_metric)
       IN  IF dist = None
           THEN /\ opt_ret' = None
                /\ opt_pc' = "raised"
           ELSE /\ opt_ret' = Some([best_params |-> best_params,
                                    best_metric |-> best_metric,
                                    best_results |-> best_results,
                                    all_results |-> results,
                                    param_distribution |-> dist[1]])
                /\ opt_pc' = "done"
    /\ UNCHANGED <<opt_data, results, strategy, param_grid, param_ranges,
                   n_iterations, opt_metric, combos, best_metric,
                   best_params, best_results, eval_log>>
    /\ UNCHANGED <<capital, trades, equity_curve>>

-----------------------------------------------------------------------------
(* StrategyOptimizer.walk_forward_optimization *)

\* the windows one call may record before the model stops following it
MaxWindows == 4

\* data.iloc[a:b], 0 <= a: the bars at the 0-based places a .. b - 1 that
\* the series has
ILoc(closes, a, b) ==
    SubSeq(closes, a + 1, IF b < Len(closes) THEN b ELSE Len(closes))

\* the empty dict that run_backtest puts in the place of params = None
EmptyParams == [n \in {} |-> 0]
ParamsOrEmpty(params) == IF params = None THEN EmptyParams ELSE params[1]

\* the for loop of grid_search over the combinations cs
RECURSIVE GridLoop(_, _, _, _, _, _, _, _)
GridLoop(o, cs, names, strat, closes, initial, rate, metric) ==
    IF cs = << >>
    THEN o
    ELSE GridLoop(Evaluate(o, strat, closes, initial, rate, metric,
                           ZipParams(names, Head(cs))),
                  Tail(cs), names, strat, closes, initial, rate, metric)

\* StrategyOptimizer(engine, closes).grid_search(strat, grid, metric) as
\* one call: the engine as the call leaves it, and the mapping it returns
grid_search(engine, strat, grid, closes, initial, rate, metric) ==
    LET fresh == [results |-> << >>,
                  best |-> [best_metric |-> None, best_params |-> None,
                            best_results |-> None],
                  engine |-> engine, raised |-> FALSE]
        o == GridLoop(fresh, product(param_values(grid)), param_names(grid),
                      strat, closes, initial, rate, metric)
    IN  [e |-> o.engine,
         ret |-> [best_params |-> o.best.best_params,
                  best_metric |-> o.best.best_metric,
                  best_results |-> o.best.best_results,
                  all_results |-> o.results]]

\* the run_backtest calls a grid search makes on the series closes
TrainCalls(grid, closes) ==
    LET cs == product(param_values(grid))
    IN  [k \in 1..Len(cs) |->
            [phase |-> "train", closes |-> closes,
             params |-> Some(ZipParams(param_names(grid), cs[k]))]]

\* variant: the loop goes on while the training window fits
WindowFitsTrainOnly(from, train, test, n_samples) == from + train <= n_samples

\* while start + train_period + test_period <= n_samples
WindowFits(from, train, test, n_samples) == from + train + test <= n_samples

\* variant: the window moves on by a whole training and testing window
AdvanceWhole(from, train, test) == from + train + test

\* start += test_period
Advance(from, train, test) == from + test

\* variant: the test run reuses the parameters of the first record
TestParamsStale(train_ret, earlier) ==
    IF earlier = << >> THEN train_ret.best_params
    ELSE earlier[1].best_params

\* best_params = train_results['best_params'], with the records so far
TestParams(train_ret, earlier) == train_ret.best_params

RatAdd(a, b) == Rat(a[1] * b[2] + b[1] * a[2], a[2] * b[2])

RECURSIVE RatSum(_)
RatSum(xs) == IF xs = << >> THEN <<0, 1>> ELSE RatAdd(Head(xs), RatSum(Tail(xs)))

\* np.mean of the test metrics: None (nan) when there is none
MeanTestMetric(rs) ==
    IF rs = << >>
    THEN None
    ELSE LET total == RatSum([k \in 1..Len(rs) |-> rs[k].test_metric])
         IN  Some(Rat(total[1], total[2] * Len(rs)))

\* walk_forward_optimization, up to the loop
WalkForwardOptimization(strat, grid, train, test, metric) ==
    /\ wf_pc = "idle"
    /\ opt_pc = "idle"
    /\ strategy' = strat
    /\ param_grid' = grid
    /\ opt_metric' = metric
    /\ train_period' = train
    /\ test_period' = test
    /\ start' = 0
    /\ wf_results' = << >>
    /\ train_results' = None
    /\ wf_calls' = << >>
    /\ wf_pc' = "loop"
    /\ wf_ret' = None
    /\ UNCHANGED <<opt_data, results, param_ranges, n_iterations, combos,
                   best_metric, best_params, best_results, eval_log, opt_pc,
                   opt_ret>>
    /\ UNCHANGED <<capital, trades, equity_curve>>

\* the first half of an iteration: the split, and the grid search of a
\* new optimizer on the training window, on the same engine
WalkTrain ==
    /\ wf_pc = "loop"
    /\ WindowFits(start, train_period, test_period, Len(opt_data))
    /\ Len(wf_results) < MaxWindows
    /\ LET train_data == ILoc(opt_data, start, start + train_period)
           gs == grid_search([capital |-> capital, trades |-> trades,
                              equity_curve |-> equity_curve,
                              position |-> None],
                             strategy, param_grid, train_data,
                             bt_initial_capital, bt_commission, opt_metric)
       IN  /\ train_results' = Some(gs.ret)
           /\ capital' = gs.e.capital
           /\ trades' = gs.e.trades
           /\ equity_curve' = gs.e.equity_curve
    /\ wf_calls' = wf_calls
                   \o TrainCalls(param_grid,
                                 ILoc(opt_data, start, start + train_period))
    /\ wf_pc' = "test"
    /\ UNCHANGED <<opt_data, results, strategy, param_grid, param_ranges,
                   n_iterations, opt_metric, combos, best_metric,
                   best_params, best_results, eval_log, opt_pc, opt_ret>>
    /\ UNCHANGED <<train_period, test_period, start, wf_results, wf_ret>>

\* the second half: the run on the test window with the best parameters,
\* the record, start += test_period; an error of the run leaves the call
WalkTest ==
    /\ wf_pc = "test"
    /\ LET test_data == ILoc(opt_data, start + train_period,
                             start + train_period + test_period)
           params == TestParams(train_results[1], wf_results)
           rule == strategy[ParamsOrEmpty(params)]
           run == run_backtest(bt_initial_capital, bt_commission, test_data,
                               RuleSignals(rule, test_data))
           e == IF rule.raises THEN FreshRun(bt_initial_capital) ELSE run.e
       IN  /\ capital' = e.capital
           /\ trades' = e.trades
           /\ equity_curve' = e.equity_curve
           /\ wf_calls' = Append(wf_calls,
                                 [phase |-> "test", closes |-> test_data,
                                  params |-> params])
           /\ IF rule.raises \/ opt_metric \notin DOMAIN run.ret
              THEN /\ wf_pc' = "raised"
                   /\ UNCHANGED <<start, wf_results>>
              ELSE /\ wf_results' =
                          Append(wf_results,
                                 [train_period |->
                                      <<start, start + train_period>>,
                                  test_period |->
                                      <<start + train_period,
                                        start + train_period + test_period>>,
                                  best_params |-> params,
                                  train_metric |->
                                      train_results[1].best_metric,
                                  test_metric |-> run.ret[opt_metric],
                                  test_results |-> run.ret])
                   /\ start' = Advance(start, train_period, test_period)
                   /\ wf_pc' = "loop"
    /\ UNCHANGED <<opt_data, results, strategy, param_grid, param_ranges,
                   n_iterations, opt_metric, combos, best_metric,
                   best_params, best_results, eval_log, opt_pc, opt_ret>>
    /\ UNCHANGED <<train_period, test_period, train_results, wf_ret>>

\* after the loop: the records and their mean test metric (np.std takes a
\* square root and is not modelled)
WalkReturn ==
    /\ wf_pc = "loop"
    /\ ~WindowFits(start, train_period, test_period, Len(opt_data))
    /\ wf_ret' = Some([walk_forward_results |-> wf_results,
                       avg_test_metric |-> MeanTestMetric(wf_results)])
    /\ wf_pc' = "done"
    /\ UNCHANGED <<opt_data, results, strategy, param_grid, param_ranges,
                   n_iterations, opt_metric, combos, best_metric,
                   best_params, best_results, eval_log, opt_pc, opt_ret>>
    /\ UNCHANGED <<train_period, test_period, start, wf_results,
                   train_results, wf_calls>>
    /\ UNCHANGED <<capital, trades, equity_curve>>

-----------------------------------------------------------------------------
(* Evaluations on a worker pool: the steps of run_backtest, per call *)

\* worker w enters run_backtest on the optimizer's engine: the three
\* resets of the engine's fields, the strategy's signals, position = None
PoolStart(w, sigs) ==
    /\ pool[w].pc = "idle"
    /\ capital' = bt_initial_capital
    /\ trades' = << >>
    /\ equity_curve' = << >>
    /\ pool' = [pool EXCEPT ![w] = [pc |-> "loop", signals |-> sigs,
                                    position |-> None, bar |-> 1,
                                    ret |-> None]]

\* one iteration of the loop of worker w's call
PoolBar(w) ==
    /\ pool[w].pc = "loop"
    /\ pool[w].bar <= Len(opt_data)
    /\ LET e == BarBody([capital |-> capital, trades |-> trades,
                         equity_curve |-> equity_curve,
                         position |-> pool[w].position],
                        pool[w].bar, opt_data[pool[w].bar],
                        SignalAt(pool[w].signals, pool[w].bar),
                        bt_commission)
       IN  /\ capital' = e.capital
           /\ trades' = e.trades
           /\ equity_curve' = e.equity_curve
           /\ pool' = [pool EXCEPT ![w].position = e.position,
                                   ![w].bar = pool[w].bar + 1]

\* the forced close and the metrics of worker w's call
PoolReturn(w) ==
    /\ pool[w].pc = "loop"
    /\ pool[w].bar > Len(opt_data)
    /\ LET e == ForceClose([capital |-> capital, trades |-> trades,
                            equity_curve |-> equity_curve,
                            position |-> pool[w].position],
                           opt_data, bt_commission)
       IN  /\ capital' = e.capital
           /\ trades' = e.trades
           /\ equity_curve' = equity_curve
           /\ pool' = [pool EXCEPT
                          ![w].pc = "done",
                          ![w].position = e.position,
                          ![w].ret = Some(_calculate_metrics(
                                             e.trades, equity_curve,
                                             e.capital, bt_initial_capital))]

-----------------------------------------------------------------------------
(* StrategyOptimizer: the calls under test *)

\* the number of samples a Monte Carlo run is asked for
MaxIterations == 3

\* the engine the optimizer is given: capital 20, no commission; the
\* series it is given
OptCapital == 20
OptData == <<1, 2, 1>>

\* how a strategy answers one parameter assignment: it raises, or returns
\* the signals hold / buy the first bar and sell the second / buy the
\* first bar and sell the third / buy the second bar and sell the third
SignalRules ==
    {Returns(<<0, 0, 0>>), Returns(<<1, -1, 0>>), Returns(<<1, 0, -1>>),
     Returns(<<0, 1, -1>>)}
StrategyRules == {Raises} \cup SignalRules

\* the grids under test: a 2x2 grid, the same with the parameters declared
\* in the other order and one value list reversed, a grid of one parameter
\* and a grid with an empty value list
Grids ==
    {<< <<"a", <<1, 2>>>>, <<"b", <<1, 2>>>> >>,
     << <<"b", <<2, 1>>>>, <<"a", <<1, 2>>>> >>,
     << <<"a", <<2, 1>>>> >>,
     << <<"a", <<1, 2>>>>, <<"b", << >>>> >>}

\* the parameter ranges under test
Ranges ==
    {<< <<"a", 1, 2>> >>,
     << <<"a", 1, 2>>, <<"b", 2, 2>> >>}

\* one parameter with the integer bounds (1, 5), sampled under the
\* strategies that answer every assignment alike
WideRanges == << <<"a", 1, 5>> >>
UniformStrategies(ranges) ==
    {[ps \in Samples(ranges) |-> rule] : rule \in StrategyRules}

Metrics == {"total_return", "max_drawdown"}

\* every assignment the search can pass to the strategy
GridSpace(grid) ==
    LET cs == product(param_values(grid))
    IN  {ZipParams(param_names(grid), cs[k]) : k \in 1..Len(cs)}

-----------------------------------------------------------------------------
(* Specifications *)

\* the matching engine under every sequence of calls; the backtest engine
\* stays as constructed with its defaults
TraderInit ==
    /\ \E cap \in InitialCapitals, rate \in CommissionRates :
           TraderConstructed(cap, rate)
    /\ EngineConstructed(ScenarioCapital, 1)
    /\ OptimizerConstructed(<< >>)

TraderNext ==
    \/ /\ \E a \in SubmitArgs :
               SubmitOrder(a[1], a[2], a[3], a[4], a[5], a[6])
       /\ UNCHANGED <<btVars, optVars, pool>>
    \/ /\ \E i \in 1..Len(orders), p \in Prices : ExecuteOrder(i, p)
       /\ UNCHANGED <<btVars, optVars, pool>>
    \/ /\ \E i \in 1..Len(orders), p \in Prices : ProcessMarketOrder(i, p)
       /\ UNCHANGED <<btVars, optVars, pool>>
    \/ /\ \E i \in 1..Len(orders), p \in Prices : ProcessLimitOrder(i, p)
       /\ UNCHANGED <<btVars, optVars, pool>>
    \/ /\ \E prices \in PriceMaps : UpdateMarketData(prices)
       /\ UNCHANGED <<btVars, optVars, pool>>
    \/ /\ \E order_id \in 1..(MaxOrders + 1) : CancelOrder(order_id)
       /\ UNCHANGED <<btVars, optVars, pool>>

TraderSpec == TraderInit /\ [][TraderNext]_vars

\* a matching engine with ample capital, at no commission or at the default
\* 0.1 %, whose callers only buy at the market and execute the orders
\* themselves
BuyerCapital == 10
BuyerRates == {0, 1}
BuyerArgs ==
    {<<"A", "buy", "market", q, None, None>> : q \in Quantities}
    \cup {<<"B", "buy", "market", 1, None, None>>}

BuyerInit ==
    /\ \E rate \in BuyerRates : TraderConstructed(BuyerCapital, rate)
    /\ EngineConstructed(ScenarioCapital, 1)
    /\ OptimizerConstructed(<< >>)

BuyerNext ==
    \/ /\ \E a \in BuyerArgs :
               SubmitOrder(a[1], a[2], a[3], a[4], a[5], a[6])
       /\ UNCHANGED <<btVars, optVars, pool>>
    \/ /\ \E i \in 1..Len(orders), p \in Prices : ExecuteOrder(i, p)
       /\ UNCHANGED <<btVars, optVars, pool>>

BuyerSpec == BuyerInit /\ [][BuyerNext]_vars

\* one run of the backtest engine; the matching engine stays as constructed
\* with its defaults
BacktestInit ==
    /\ \E cfg \in BtConfigs : EngineConstructed(cfg[1], cfg[2])
    /\ TraderConstructed(ScenarioCapital, 1)
    /\ OptimizerConstructed(<< >>)

BacktestNext ==
    \/ /\ bt_pc = "idle"
       /\ \E in \in BtInputs(bt_initial_capital) : RunBacktest(in[1], in[2])
       /\ UNCHANGED <<ptVars, optVars, pool>>
    \/ /\ BarStep
       /\ UNCHANGED <<ptVars, optVars, pool>>
    \/ /\ ReturnMetrics
       /\ UNCHANGED <<ptVars, optVars, pool>>

BacktestSpec == BacktestInit /\ [][BacktestNext]_vars

\* calls of run_backtest one after the other on one engine of capital 20:
\* any series and signals first, then the same again or the round trips
MaxRuns == 2
RerunRates == {0, 1}
BtReruns == {<<data, signals>>, <<RoundTripData, RoundTripSignals>>}

RerunInit ==
    /\ \E rate \in RerunRates : EngineConstructed(OptCapital, rate)
    /\ TraderConstructed(ScenarioCapital, 1)
    /\ OptimizerConstructed(<< >>)

RerunNext ==
    \/ /\ bt_pc \in {"idle", "done"}
       /\ Len(run_log) < MaxRuns
       /\ \E in \in (IF run_log = << >> THEN BtInputs(bt_initial_capital)
                      ELSE BtReruns) :
              RunBacktest(in[1], in[2])
       /\ UNCHANGED <<ptVars, optVars, pool>>
    \/ /\ BarStep
       /\ UNCHANGED <<ptVars, optVars, pool>>
    \/ /\ ReturnMetrics
       /\ UNCHANGED <<ptVars, optVars, pool>>

RerunSpec == RerunInit /\ [][RerunNext]_vars

\* one search of an optimizer built on an engine and a series; the
\* matching engine stays as constructed with its defaults
runVars == <<bt_initial_capital, bt_commission, data, signals, position, bar,
             bar_log, bt_pc, metrics, run_log>>

OptimizerInit ==
    /\ EngineConstructed(OptCapital, 0)
    /\ OptimizerConstructed(OptData)
    /\ TraderConstructed(ScenarioCapital, 1)

OptimizerNext ==
    \/ /\ opt_pc = "idle"
       /\ \E grid \in Grids, metric \in Metrics :
              \E strat \in [GridSpace(grid) -> StrategyRules] :
                  GridSearch(strat, grid, metric)
       /\ UNCHANGED <<ptVars, runVars, pool, wfVars>>
    \/ /\ GridStep
       /\ UNCHANGED <<ptVars, runVars, pool, wfVars>>
    \/ /\ GridReturn
       /\ UNCHANGED <<ptVars, runVars, pool, wfVars>>
    \/ /\ opt_pc = "idle"
       /\ \E n \in 0..MaxIterations, metric \in Metrics :
              \/ \E ranges \in Ranges :
                     \E strat \in [Samples(ranges) -> StrategyRules] :
                         MonteCarloSimulation(strat, ranges, n, metric)
              \/ \E strat \in UniformStrategies(WideRanges) :
                     MonteCarloSimulation(strat, WideRanges, n, metric)
       /\ UNCHANGED <<ptVars, runVars, pool, wfVars>>
    \/ /\ opt_pc = "monte_carlo"
       /\ \E params \in Samples(param_ranges) : MonteCarloStep(params)
       /\ UNCHANGED <<ptVars, runVars, pool, wfVars>>
    \/ /\ MonteCarloReturn
       /\ UNCHANGED <<ptVars, runVars, pool, wfVars>>

OptimizerSpec == OptimizerInit /\ [][OptimizerNext]_vars

\* the evaluations of two grid cells, each a run_backtest call on the
\* optimizer's one engine, with their steps interleaved
poolFrame == <<ptVars, optVars, bt_initial_capital, bt_commission, data,
               signals, position, bar, bar_log, bt_pc, metrics, run_log>>

PoolInit == OptimizerInit

PoolNext ==
    \/ /\ \E w \in Workers, rule \in SignalRules :
              PoolStart(w, RuleSignals(rule, opt_data))
       /\ UNCHANGED poolFrame
    \/ /\ \E w \in Workers : PoolBar(w)
       /\ UNCHANGED poolFrame
    \/ /\ \E w \in Workers : PoolReturn(w)
       /\ UNCHANGED poolFrame

PoolSpec == PoolInit /\ [][PoolNext]_vars

\* one walk-forward optimization of an optimizer built on an engine and a
\* series of four bars; the strategy answers each assignment of the grid,
\* and the empty assignment, by one rule
MaxPeriod == 2
WfData == <<1, 2, 1, 3>>
WfGrid == << <<"a", <<1, 2>>>> >>

WalkForwardInit ==
    /\ EngineConstructed(OptCapital, 0)
    /\ OptimizerConstructed(WfData)
    /\ TraderConstructed(ScenarioCapital, 1)

WalkForwardNext ==
    \/ /\ \E train \in 0..MaxPeriod, test \in 0..MaxPeriod,
             metric \in Metrics :
              \E strat \in [GridSpace(WfGrid) \cup {EmptyParams}
                                -> StrategyRules] :
                  WalkForwardOptimization(strat, WfGrid, train, test, metric)
       /\ UNCHANGED <<ptVars, runVars, pool>>
    \/ /\ WalkTrain
       /\ UNCHANGED <<ptVars, runVars, pool>>
    \/ /\ WalkTest
       /\ UNCHANGED <<ptVars, runVars, pool>>
    \/ /\ WalkReturn
       /\ UNCHANGED <<ptVars, runVars, pool>>

WalkForwardSpec == WalkForwardInit /\ [][WalkForwardNext]_vars

-----------------------------------------------------------------------------
(* Matching engine: properties *)

OrderIndexes == 1..Len(orders)

\* what the fill recorded as r moved into (+) or out of (-) cash
SignedAmount(r) ==
    IF r.side = "buy"
    THEN -(r.quantity * r.price * (MoneyScale + commission))
    ELSE r.quantity * r.price * (MoneyScale - commission)

\* the sum of SignedAmount over the records k..Len(hist) of hist
RECURSIVE SumSigned(_, _)
SumSigned(hist, k) ==
    IF k > Len(hist) THEN 0 ELSE SignedAmount(hist[k]) + SumSigned(hist, k + 1)

\* C1: an order's status only moves from pending to filled, cancelled or
\* rejected, and an order that is not pending never changes again (status,
\* filled_quantity, filled_price and every other field), whatever is called.
C1_StatusMonotone ==
    [][/\ Len(orders') >= Len(orders)
       /\ \A i \in OrderIndexes :
            /\ orders[i].status # "pending" => orders'[i] = orders[i]
            /\ orders'[i].status \in
                   {"pending", "filled", "cancelled", "rejected"}]_vars

C1_Witness ==
    \E i, j \in OrderIndexes :
        /\ orders[i].status = "filled"
        /\ orders[i].filled_price # None
        /\ orders[j].status \in {"cancelled", "rejected"}

\* C2: the cash balance is never negative.
C2_CashNonNegative == cash >= 0

\* a fill has spent the cash down to exactly zero
C2_Witness ==
    /\ cash = 0
    /\ trade_history # << >>
    /\ trade_history[1].side = "buy"

\* C3: a call of execute_order that fills a buy of qty at p lowers cash by
\* exactly qty*p*(1+commission), one that fills a sell raises it by exactly
\* qty*p*(1-commission), the record it appends carries commission
\* qty*p*commission; and in every step cash changes by exactly the amounts
\* of the fills recorded in that step, so nothing else changes cash.
C3_CashDeltaExact ==
    [][/\ Len(trade_history') >= Len(trade_history)
       /\ cash' = cash + SumSigned(trade_history', Len(trade_history) + 1)
       /\ \A i \in OrderIndexes, p \in Prices :
            (/\ orders[i].status = "pending"
             /\ orders'[i].status = "filled"
             /\ ExecuteOrder(i, p))
            => /\ Len(trade_history') = Len(trade_history) + 1
               /\ trade_history'[Len(trade_history')].commission
                      = orders[i].quantity * p * commission
               /\ trade_history'[Len(trade_history')].price = p
               /\ orders[i].side = "buy" =>
                      cash' = cash - orders[i].quantity * p
                                        * (MoneyScale + commission)
               /\ orders[i].side = "sell" =>
                      cash' = cash + orders[i].quantity * p
                                        * (MoneyScale - commission)]_vars

\* a buy and then a sell have filled at a non-zero commission rate
C3_Witness ==
    /\ commission > 0
    /\ Len(trade_history) = 2
    /\ trade_history[1].side = "buy"
    /\ trade_history[2].side = "sell"
    /\ trade_history[2].price > 0

\* C4: execute_order on a pending buy whose total cost exceeds cash rejects
\* the order, returns failure and leaves cash, positions and trade history
\* unchanged; when the total cost is at most cash (equality included) the
\* buy fills.
C4_BuyRejectedOrFilled ==
    [][\A i \in OrderIndexes, p \in Prices :
          (/\ orders[i].status = "pending"
           /\ orders[i].side = "buy"
           /\ ExecuteOrder(i, p))
          => IF orders[i].quantity * p * (MoneyScale + commission) > cash
             THEN /\ orders'[i].status = "rejected"
                  /\ execute_order(Trader, i, p).ret = FALSE
                  /\ cash' = cash
                  /\ positions' = positions
                  /\ trade_history' = trade_history
             ELSE /\ orders'[i].status = "filled"
                  /\ execute_order(Trader, i, p).ret = TRUE]_vars

\* one buy took exactly the cash there was, the next one was rejected
C4_Witness ==
    \E i, j \in OrderIndexes :
        /\ orders[i].side = "buy" /\ orders[i].status = "filled"
        /\ orders[j].side = "buy" /\ orders[j].status = "rejected"
        /\ cash = 0
        /\ Len(trade_history) = 1

\* C5: execute_order on a pending sell of a symbol with no position, or with
\* fewer shares held than asked, rejects the order, returns failure and
\* leaves cash, positions and trade history unchanged; a sell of exactly the
\* held quantity fills.
C5_SellRejectedOrFilled ==
    [][\A i \in OrderIndexes, p \in Prices :
          (/\ orders[i].status = "pending"
           /\ orders[i].side = "sell"
           /\ ExecuteOrder(i, p))
          => IF \/ orders[i].symbol \notin DOMAIN positions
                \/ positions[orders[i].symbol].quantity < orders[i].quantity
             THEN /\ orders'[i].status = "rejected"
                  /\ execute_order(Trader, i, p).ret = FALSE
                  /\ cash' = cash
                  /\ positions' = positions
                  /\ trade_history' = trade_history
             ELSE /\ orders'[i].status = "filled"
                  /\ execute_order(Trader, i, p).ret = TRUE]_vars

\* a sell of exactly the held quantity has filled and emptied the book
C5_Witness ==
    /\ Len(trade_history) = 2
    /\ trade_history[1].side = "buy"
    /\ trade_history[2].side = "sell"
    /\ trade_history[2].symbol = trade_history[1].symbol
    /\ trade_history[2].quantity = trade_history[1].quantity
    /\ positions = EmptyBook

\* a pending limit buy that carries a limit price
PendingLimitBuy(o) ==
    /\ o.order_type = "limit"
    /\ o.side = "buy"
    /\ o.status = "pending"
    /\ o.price # None

\* the trader as the tick leaves it when the turn of order i comes
AtTurn(prices, i) ==
    ProcessRange([Trader EXCEPT !.positions = MarkPositions(positions, prices)],
                 prices, 1, i - 1)

\* C6 as stated: a pending limit buy with limit L never fills on a tick
\* above L and always fills, at L, on a tick at or below L.
C6_LimitBuyAlwaysFills ==
    [][\A i \in OrderIndexes :
          PendingLimitBuy(orders[i])
          => \A prices \in PriceMaps :
                (/\ orders[i].symbol \in DOMAIN prices
                 /\ order_counter' = order_counter
                 /\ UpdateMarketData(prices))
                => IF prices[orders[i].symbol] > orders[i].price[1]
                   THEN orders'[i].status # "filled"
                   ELSE /\ orders'[i].status = "filled"
                        /\ orders'[i].filled_price = orders[i].price]_vars

\* C6, amended: a pending limit buy with limit L stays pending on a tick
\* above L; on a tick at or below L it is executed at L: it fills with
\* filled_price L when qty*L*(1+commission) is at most the cash left when
\* its turn comes in that tick, and is rejected otherwise.
C6_LimitBuyExecutesAtLimit ==
    [][\A i \in OrderIndexes :
          PendingLimitBuy(orders[i])
          => \A prices \in PriceMaps :
                (/\ orders[i].symbol \in DOMAIN prices
                 /\ order_counter' = order_counter
                 /\ UpdateMarketData(prices))
                => IF prices[orders[i].symbol] > orders[i].price[1]
                   THEN orders'[i] = orders[i]
                   ELSE IF orders[i].quantity * orders[i].price[1]
                               * (MoneyScale + commission)
                           <= AtTurn(prices, i).cash
                   THEN /\ orders'[i].status = "filled"
                        /\ orders'[i].filled_price = orders[i].price
                        /\ orders'[i].filled_quantity = orders[i].quantity
                   ELSE orders'[i].status = "rejected"]_vars

\* one limit buy has filled at its limit and a second one, which the cash
\* left could not pay, was rejected
C6_Witness ==
    \E i, j \in OrderIndexes :
        /\ orders[i].order_type = "limit" /\ orders[i].side = "buy"
        /\ orders[i].status = "filled"
        /\ orders[i].filled_price = orders[i].price
        /\ orders[j].order_type = "limit" /\ orders[j].side = "buy"
        /\ orders[j].status = "rejected"
        /\ orders[j].price # None

\* C7: every entry of the position book has quantity > 0; a sell that
\* brings the quantity to zero removes the symbol's key.
C7_PositionsPositive ==
    \A s \in DOMAIN positions : positions[s].quantity > 0

\* a symbol was bought and sold back in full, and its key is gone
C7_Witness ==
    /\ Len(trade_history) = 2
    /\ trade_history[1].side = "buy"
    /\ trade_history[2].side = "sell"
    /\ trade_history[2].symbol = trade_history[1].symbol
    /\ trade_history[2].quantity = trade_history[1].quantity
    /\ trade_history[1].symbol \notin DOMAIN positions
    /\ orders[2].status = "filled"

\* a pending limit sell that carries a limit price
PendingLimitSell(o) ==
    /\ o.order_type = "limit"
    /\ o.side = "sell"
    /\ o.status = "pending"
    /\ o.price # None

\* C21: a pending limit sell with limit L is not executed on a tick below L
\* and is executed on a tick at or above L, at the price L and not at the
\* tick price: it is then filled or rejected, and a fill has filled_price L,
\* is recorded at L and credits cash with qty*L*(1-commission).
C21_LimitSellExecutesAtLimit ==
    \A i \in OrderIndexes :
        PendingLimitSell(orders[i])
        => /\ \A p \in Prices :
                process_limit_order(Trader, i, p)
                  = IF p < orders[i].price[1]
                    THEN [st |-> Trader, ret |-> FALSE]
                    ELSE execute_order(Trader, i, orders[i].price[1])
           /\ \A prices \in PriceMaps :
                orders[i].symbol \in DOMAIN prices
                => LET before == AtTurn(prices, i)
                       after == AtTurn(prices, i + 1)
                       L == orders[i].price[1]
                   IN  /\ update_market_data(Trader, prices).orders[i]
                             = after.orders[i]
                       /\ IF prices[orders[i].symbol] < L
                          THEN /\ after.orders[i] = orders[i]
                               /\ after.cash = before.cash
                          ELSE /\ after.orders[i].status
                                     \in {"filled", "rejected"}
                               /\ after.orders[i].status = "filled"
                                  => /\ after.orders[i].filled_price = Some(L)
                                     /\ after.cash
                                          = before.cash
                                            + orders[i].quantity * L
                                              * (MoneyScale - commission)
                                     /\ after.trade_history[
                                            Len(after.trade_history)].price = L

\* a limit sell at 1 has filled at 1 on a tick at 2: the rest of the
\* position is marked at 2
C21_Witness ==
    \E i \in OrderIndexes :
        /\ orders[i].order_type = "limit" /\ orders[i].side = "sell"
        /\ orders[i].status = "filled"
        /\ orders[i].filled_price = Some(1)
        /\ orders[i].symbol \in DOMAIN positions
        /\ positions[orders[i].symbol].current_price = 2

\* C22: the trade history is an append-only log with one record per fill:
\* its length is the number of filled orders, every record carries the
\* order id, symbol, side, quantity and price of a filled order, no two
\* records belong to one order, and no step changes or removes a record.
C22_TradeHistoryAppendOnly ==
    /\ [](/\ Len(trade_history)
               = Cardinality({i \in OrderIndexes :
                                 orders[i].status = "filled"})
          /\ \A k \in 1..Len(trade_history) :
                \E i \in OrderIndexes :
                    /\ orders[i].order_id = trade_history[k].order_id
                    /\ orders[i].status = "filled"
                    /\ orders[i].symbol = trade_history[k].symbol
                    /\ orders[i].side = trade_history[k].side
                    /\ orders[i].quantity = trade_history[k].quantity
                    /\ orders[i].filled_price = Some(trade_history[k].price)
          /\ \A k, l \in 1..Len(trade_history) :
                trade_history[k].order_id = trade_history[l].order_id
                => k = l)
    /\ [][/\ Len(trade_history') >= Len(trade_history)
          /\ SubSeq(trade_history', 1, Len(trade_history))
                = trade_history]_vars

\* one order has filled and a sell was rejected: one record
C22_Witness ==
    \E i, j \in OrderIndexes :
        /\ orders[i].status = "filled"
        /\ orders[j].status = "rejected" /\ orders[j].side = "sell"
        /\ Len(trade_history) = 1
        /\ trade_history[1].order_id = orders[i].order_id

\* over the buy records of symbol s from record k on: the shares bought
\* and what they cost before commission
RECURSIVE BoughtQty(_, _)
BoughtQty(s, k) ==
    IF k > Len(trade_history) THEN 0
    ELSE (IF trade_history[k].symbol = s /\ trade_history[k].side = "buy"
          THEN trade_history[k].quantity ELSE 0) + BoughtQty(s, k + 1)

RECURSIVE BoughtCost(_, _)
BoughtCost(s, k) ==
    IF k > Len(trade_history) THEN 0
    ELSE (IF trade_history[k].symbol = s /\ trade_history[k].side = "buy"
          THEN trade_history[k].quantity * trade_history[k].price ELSE 0)
         + BoughtCost(s, k + 1)

\* C23: with nothing sold, the position of a symbol holds the sum of the
\* quantities bought at the average price (sum of qty*price) / (sum of
\* qty), so q1 at p1 then q2 at p2 gives q1+q2 at
\* (q1*p1+q2*p2)/(q1+q2); and each buy that fills on a held symbol sets
\* avg_price to (oldAvg*oldQty + price*qty)/(oldQty+qty).
C23_WeightedAverageCost ==
    /\ \A s \in Symbols :
          IF BoughtQty(s, 1) = 0
          THEN s \notin DOMAIN positions
          ELSE /\ s \in DOMAIN positions
               /\ positions[s].quantity = BoughtQty(s, 1)
               /\ positions[s].avg_price
                     = Rat(BoughtCost(s, 1), BoughtQty(s, 1))
    /\ \A i \in OrderIndexes, p \in Prices :
          (/\ orders[i].status = "pending"
           /\ orders[i].side = "buy"
           /\ orders[i].symbol \in DOMAIN positions
           /\ execute_order(Trader, i, p).ret)
          => LET old == positions[orders[i].symbol]
                 new == execute_order(Trader, i, p).st
                            .positions[orders[i].symbol]
             IN  /\ new.quantity = old.quantity + orders[i].quantity
                 /\ new.avg_price
                       = Rat(old.avg_price[1] * old.quantity
                               + p * orders[i].quantity * old.avg_price[2],
                             old.avg_price[2]
                               * (old.quantity + orders[i].quantity))

\* one share bought at 1 and then two at 2: three shares at 5/3
C23_Witness ==
    /\ Len(trade_history) = 2
    /\ trade_history[1].symbol = trade_history[2].symbol
    /\ trade_history[1].quantity = 1 /\ trade_history[1].price = 1
    /\ trade_history[2].quantity = 2 /\ trade_history[2].price = 2
    /\ positions[trade_history[1].symbol].quantity = 3
    /\ positions[trade_history[1].symbol].avg_price = <<5, 3>>

\* C24: submit_order appends exactly one new order, pending, with filled
\* quantity 0 and no filled price, carrying the arguments of the call; it
\* leaves cash, positions, trade history and every existing order as they
\* are, whatever the order's type, quantity or prices; nothing else adds an
\* order.
C24_SubmitAppendsPending ==
    [][/\ Len(orders') # Len(orders) => order_counter' # order_counter
       /\ order_counter' # order_counter
          => /\ order_counter' = order_counter + 1
             /\ Len(orders') = Len(orders) + 1
             /\ SubSeq(orders', 1, Len(orders)) = orders
             /\ LET o == orders'[Len(orders')]
                IN  /\ o.status = "pending"
                    /\ o.filled_quantity = 0
                    /\ o.filled_price = None
                    /\ o.order_id = order_counter'
                    /\ <<o.symbol, o.side, o.order_type, o.quantity,
                          o.price, o.stop_price>> \in SubmitArgs
             /\ cash' = cash
             /\ positions' = positions
             /\ trade_history' = trade_history]_vars

\* a stop-limit order was submitted after an order that had filled
C24_Witness ==
    /\ Len(orders) = 2
    /\ orders[1].status = "filled"
    /\ orders[2].order_type = "stop_limit"
    /\ orders[2].status = "pending"
    /\ orders[2].price # None /\ orders[2].stop_price # None
    /\ Len(trade_history) = 1

\* an order of type stop or stop_limit
StopOrder(o) == o.order_type \in {"stop", "stop_limit"}

\* the trader as it would be had its pending stop and stop-limit orders
\* been cancelled
WithoutStops ==
    [Trader EXCEPT !.orders =
        [i \in DOMAIN orders |->
            IF StopOrder(orders[i]) /\ orders[i].status = "pending"
            THEN [orders[i] EXCEPT !.status = "cancelled"]
            ELSE orders[i]]]

\* C17: a stop or stop_limit order is accepted by submit_order as pending
\* and no tick matches it: update_market_data leaves it as it is and moves
\* cash, positions and trade history exactly as if the order were not
\* there; its status changes only in a step that executes or cancels it.
C17_StopOrdersNeverMatched ==
    /\ []((\E i \in OrderIndexes :
               StopOrder(orders[i]) /\ orders[i].status = "pending")
          => \A prices \in PriceMaps :
                LET after == update_market_data(Trader, prices)
                    without == update_market_data(WithoutStops, prices)
                IN  /\ \A i \in OrderIndexes :
                          (/\ StopOrder(orders[i])
                           /\ orders[i].status = "pending")
                          => after.orders[i] = orders[i]
                    /\ after.cash = without.cash
                    /\ after.positions = without.positions
                    /\ after.trade_history = without.trade_history)
    /\ [][/\ \A i \in 1..Len(orders') :
                (i > Len(orders) /\ StopOrder(orders'[i]))
                => orders'[i].status = "pending"
          /\ \A i \in OrderIndexes :
                (/\ StopOrder(orders[i])
                 /\ orders[i].status = "pending"
                 /\ orders'[i] # orders[i])
                => \/ \E p \in Prices : ExecuteOrder(i, p)
                   \/ CancelOrder(orders[i].order_id)]_vars

\* a stop order is still pending although a market order submitted after
\* it has filled
C17_Witness ==
    \E i, j \in OrderIndexes :
        /\ i < j
        /\ StopOrder(orders[i]) /\ orders[i].status = "pending"
        /\ orders[j].order_type = "market" /\ orders[j].status = "filled"
        /\ orders[j].symbol = orders[i].symbol

\* C18: execute_order on an order that is filled, cancelled or rejected
\* returns failure and changes nothing (order, cash, positions, trade
\* history), so no order is ever settled twice: the trade history has at
\* most one record per order.
C18_ExecuteNonPendingNoOp ==
    /\ \A i \in OrderIndexes, p \in Prices :
          orders[i].status # "pending"
          => execute_order(Trader, i, p) = [st |-> Trader, ret |-> FALSE]
    /\ \A k, l \in 1..Len(trade_history) :
          trade_history[k].order_id = trade_history[l].order_id => k = l

\* a buy has filled and the cash left would pay for it once more, and
\* another order was rejected
C18_Witness ==
    \E i, j \in OrderIndexes, p \in Prices :
        /\ orders[i].status = "filled" /\ orders[i].side = "buy"
        /\ orders[i].quantity * p * (MoneyScale + commission) <= cash
        /\ orders[j].status = "rejected"

\* C19: cancel_order(id) returns success and sets the status cancelled if
\* and only if an order with that id exists and is pending; otherwise it
\* returns failure and changes nothing; it never changes cash, positions or
\* trade history; and a cancelled order never changes again.
C19_CancelOnlyPending ==
    /\ [](\A id \in 1..(MaxOrders + 1) :
            LET hit == {i \in OrderIndexes :
                           /\ orders[i].order_id = id
                           /\ orders[i].status = "pending"}
                r == cancel_order(Trader, id)
            IN  /\ r.ret = (hit # {})
                /\ r.st.cash = cash
                /\ r.st.positions = positions
                /\ r.st.trade_history = trade_history
                /\ r.st.orders
                      = [i \in DOMAIN orders |->
                            IF i \in hit
                            THEN [orders[i] EXCEPT !.status = "cancelled"]
                            ELSE orders[i]])
    /\ [][\A i \in OrderIndexes :
              orders[i].status = "cancelled" => orders'[i] = orders[i]]_vars

\* a limit buy was cancelled and a later buy of the same symbol has filled
C19_Witness ==
    \E i, j \in OrderIndexes :
        /\ i < j
        /\ orders[i].status = "cancelled"
        /\ orders[i].order_type = "limit" /\ orders[i].price # None
        /\ orders[j].status = "filled"
        /\ orders[j].symbol = orders[i].symbol

\* C20: update_market_data(prices) settles every pending market order whose
\* symbol is in prices, at the tick price: when the call returns the order
\* is filled with filled_price = prices[symbol] or rejected, never pending.
C20_MarketOrderSettledByTick ==
    \A prices \in PriceMaps :
        \A i \in OrderIndexes :
            (/\ orders[i].order_type = "market"
             /\ orders[i].status = "pending"
             /\ orders[i].symbol \in DOMAIN prices)
            => LET after == update_market_data(Trader, prices).orders[i]
               IN  \/ /\ after.status = "filled"
                      /\ after.filled_price = Some(prices[orders[i].symbol])
                      /\ after.filled_quantity = orders[i].quantity
                   \/ after.status = "rejected"

\* a market order has filled at the price 2 and another market order was
\* rejected
C20_Witness ==
    \E i, j \in OrderIndexes :
        /\ orders[i].order_type = "market" /\ orders[i].status = "filled"
        /\ orders[i].filled_price = Some(2)
        /\ orders[j].order_type = "market" /\ orders[j].status = "rejected"

\* no pending market or limit order is for a symbol that prices quotes
NothingToMatch(prices) ==
    \A i \in 1..Len(orders) :
        ~(/\ orders[i].status = "pending"
          /\ orders[i].order_type \in {"market", "limit"}
          /\ orders[i].symbol \in DOMAIN prices)

\* C34: an update_market_data call in which no pending market or limit
\* order is for a quoted symbol changes only the current_price of the held
\* positions whose symbol is quoted, which becomes the quote; the cash,
\* every position's quantity and avg_price, the positions of the other
\* symbols, every order and the trade history stay as they are.
C34_MarkingOnly ==
    \A prices \in PriceMaps :
        NothingToMatch(prices)
        => LET after == update_market_data(Trader, prices)
           IN  /\ after.cash = cash
               /\ after.orders = orders
               /\ after.trade_history = trade_history
               /\ DOMAIN after.positions = DOMAIN positions
               /\ \A s \in DOMAIN positions :
                      /\ after.positions[s].quantity = positions[s].quantity
                      /\ after.positions[s].avg_price = positions[s].avg_price
                      /\ after.positions[s].current_price =
                             IF s \in DOMAIN prices THEN prices[s]
                             ELSE positions[s].current_price

\* a position bought at 1 is marked at 2 while a stop order for its symbol
\* is still pending
C34_Witness ==
    /\ "A" \in DOMAIN positions
    /\ positions["A"].avg_price = <<1, 1>>
    /\ positions["A"].current_price = 2
    /\ \E i \in 1..Len(orders) :
           /\ orders[i].symbol = "A"
           /\ orders[i].order_type = "stop"
           /\ orders[i].status = "pending"
    /\ NothingToMatch([s \in {"A"} |-> 1])

\* C35: when update_market_data(prices) returns, every held position
\* whose symbol is quoted has current_price = prices[symbol], the positions
\* created or increased by the fills of that call included.
C35_PositionsMarkedAtQuote ==
    \A prices \in PriceMaps :
        LET after == update_market_data(Trader, prices)
        IN  \A s \in (DOMAIN after.positions) \cap (DOMAIN prices) :
                after.positions[s].current_price = prices[s]

\* the tick prices reaches order i: it is pending, its symbol is quoted,
\* and it is a market order or a limit order whose price condition holds
Attempted(i, prices) ==
    /\ orders[i].status = "pending"
    /\ orders[i].symbol \in DOMAIN prices
    /\ \/ orders[i].order_type = "market"
       \/ /\ orders[i].order_type = "limit"
          /\ orders[i].price # None
          /\ IF orders[i].side = "buy"
             THEN prices[orders[i].symbol] <= orders[i].price[1]
             ELSE prices[orders[i].symbol] >= orders[i].price[1]

\* the price order i executes at in the tick prices
TickPrice(i, prices) ==
    IF orders[i].order_type = "market" THEN prices[orders[i].symbol]
    ELSE orders[i].price[1]

\* what the orders before j that filled in the tick (after is the trader
\* when the call returns) added to the cash, and to the shares held of s
RECURSIVE CashFlowBefore(_, _, _)
CashFlowBefore(j, prices, after) ==
    IF j <= 1 THEN 0
    ELSE CashFlowBefore(j - 1, prices, after)
         + (IF Attempted(j - 1, prices)
               /\ after.orders[j - 1].status = "filled"
            THEN IF orders[j - 1].side = "buy"
                 THEN -(orders[j - 1].quantity * TickPrice(j - 1, prices)
                        * (MoneyScale + commission))
                 ELSE orders[j - 1].quantity * TickPrice(j - 1, prices)
                      * (MoneyScale - commission)
            ELSE 0)
RECURSIVE SharesFlowBefore(_, _, _, _)
SharesFlowBefore(j, s, prices, after) ==
    IF j <= 1 THEN 0
    ELSE SharesFlowBefore(j - 1, s, prices, after)
         + (IF /\ Attempted(j - 1, prices)
               /\ after.orders[j - 1].status = "filled"
               /\ orders[j - 1].symbol = s
            THEN IF orders[j - 1].side = "buy"
                 THEN orders[j - 1].quantity
                 ELSE -orders[j - 1].quantity
            ELSE 0)

HeldQuantity(s) == IF s \in DOMAIN positions THEN positions[s].quantity ELSE 0

\* C36: within one update_market_data call the pending orders are settled
\* in submission order, each against the cash and the shares left by the
\* orders settled before it in the same call: a buy fills exactly when its
\* cost is at most the cash after the earlier fills, a sell exactly when
\* its quantity is at most the shares after the earlier fills, and is
\* rejected otherwise; an order the tick does not reach is left alone, and
\* a rejected order stays as it is.
C36_SettledInSubmissionOrder ==
    /\ [](\A prices \in PriceMaps :
             LET after == update_market_data(Trader, prices)
             IN  \A j \in 1..Len(orders) :
                     IF Attempted(j, prices)
                     THEN LET fits ==
                                  IF orders[j].side = "buy"
                                  THEN orders[j].quantity
                                           * TickPrice(j, prices)
                                           * (MoneyScale + commission)
                                       <= cash + CashFlowBefore(j, prices,
                                                                after)
                                  ELSE orders[j].quantity
                                       <= HeldQuantity(orders[j].symbol)
                                          + SharesFlowBefore(
                                                j, orders[j].symbol, prices,
                                                after)
                          IN  after.orders[j].status =
                                  IF fits THEN "filled" ELSE "rejected"
                     ELSE after.orders[j] = orders[j])
    /\ [][\A j \in 1..Len(orders) :
              orders[j].status = "rejected" => orders'[j] = orders[j]]_vars

\* a pending buy followed by a pending sell of the shares it buys: one
\* tick fills both
C36_Witness ==
    /\ Len(orders) = 2
    /\ orders[1].status = "pending" /\ orders[1].side = "buy"
    /\ orders[2].status = "pending" /\ orders[2].side = "sell"
    /\ orders[1].symbol = orders[2].symbol
    /\ positions = EmptyBook
    /\ \E prices \in PriceMaps :
           LET after == update_market_data(Trader, prices)
           IN  /\ after.orders[1].status = "filled"
               /\ after.orders[2].status = "filled"
               /\ Len(after.trade_history) = 2

\* a sell submitted before the buy of its shares was rejected in the tick
\* that filled the buy
C36_SellFirst ==
    /\ Len(orders) = 2
    /\ orders[1].status = "rejected" /\ orders[1].side = "sell"
    /\ orders[2].status = "filled" /\ orders[2].side = "buy"
    /\ orders[1].symbol = orders[2].symbol
    /\ Len(trade_history) = 1

\* the quantity of symbol s sold by the trade records from index k on
RECURSIVE SoldQty(_, _)
SoldQty(s, k) ==
    IF k > Len(trade_history) THEN 0
    ELSE (IF trade_history[k].symbol = s /\ trade_history[k].side = "sell"
          THEN trade_history[k].quantity ELSE 0) + SoldQty(s, k + 1)

\* C37: the position book agrees with the trade log: for every symbol the
\* quantity held (0 when the book has no entry for it) is the sum of the
\* quantities of its buy records minus the sum of those of its sell
\* records.
C37_BookAgreesWithLog ==
    \A s \in Symbols :
        HeldQuantity(s) = BoughtQty(s, 1) - SoldQty(s, 1)

\* two shares of A were bought and one of them sold
C37_Witness ==
    /\ HeldQuantity("A") = 1
    /\ BoughtQty("A", 1) = 2
    /\ SoldQty("A", 1) = 1

-----------------------------------------------------------------------------
(* Backtest engine: properties *)

LastBar == Len(data)

\* the position after the bar at index k: what the next bar started from,
\* or what the loop ended with
PositionAfterBar(k) ==
    IF k < Len(bar_log) THEN bar_log[k + 1].position
    ELSE IF position = None THEN None
    ELSE Some(OpenTrade(position[1].entry_time, position[1].entry_price,
                        position[1].quantity))

\* the bars on which the run opened a position
EntryBars ==
    {k \in 1..Len(bar_log) :
        bar_log[k].position = None /\ PositionAfterBar(k) # None}

\* C8: when run_backtest returns, every trade of the trade list has an exit
\* price and an exit time and no position is left open, total_trades is
\* the number of entries taken during the run, and if a position was open
\* going into the final bar the last trade exits at the last bar's
\* timestamp and close.
C8_ForcedClose ==
    bt_pc = "done" =>
        /\ \A k \in 1..Len(trades) :
              trades[k].exit_price # None /\ trades[k].exit_time # None
        /\ position # None => position[1].exit_price # None
        /\ Len(trades) = Cardinality(EntryBars)
        /\ metrics[1].total_trades = Cardinality(EntryBars)
        /\ (LastBar > 0 /\ bar_log[LastBar].position # None) =>
              /\ trades[Len(trades)].exit_time = Some(LastBar)
              /\ trades[Len(trades)].exit_price = Some(data[LastBar])

\* a run has returned whose position was open going into the final bar,
\* was not closed by that bar's signal, and was closed after the loop
C8_Witness ==
    /\ bt_pc = "done"
    /\ LastBar >= 2
    /\ bar_log[LastBar].position # None
    /\ bar_log[LastBar].signal >= 0
    /\ position # None
    /\ Len(trades) >= 1

AllZeroSignals == \A k \in 1..Len(data) : SignalAt(signals, k) = 0

\* C9: a run whose signal is 0 on every bar produces no trade, and the
\* metrics it returns report final_capital = initial_capital,
\* max_drawdown = 0 and every other derived metric 0.
C9_AllZeroSignalsReport ==
    (bt_pc = "done" /\ AllZeroSignals) =>
        /\ trades = << >>
        /\ metrics[1].total_trades = 0
        /\ metrics[1].winning_trades = 0
        /\ metrics[1].losing_trades = 0
        /\ metrics[1].total_pnl = 0
        /\ metrics[1].total_return = <<0, 1>>
        /\ metrics[1].win_rate = <<0, 1>>
        /\ metrics[1].avg_win = <<0, 1>>
        /\ metrics[1].avg_loss = <<0, 1>>
        /\ metrics[1].profit_factor = <<0, 1>>
        /\ metrics[1].final_capital = bt_initial_capital
        /\ "max_drawdown" \in DOMAIN metrics[1]
        /\ metrics[1].max_drawdown = <<0, 1>>

\* the profits summed over the trades that gained, and the losses summed
\* over the trades that lost, in money units
RECURSIVE GrossProfit(_)
GrossProfit(ts) ==
    IF ts = << >> THEN 0
    ELSE (IF Pnl(Head(ts)) > 0 THEN Pnl(Head(ts)) ELSE 0)
         + GrossProfit(Tail(ts))
RECURSIVE GrossLoss(_)
GrossLoss(ts) ==
    IF ts = << >> THEN 0
    ELSE (IF Pnl(Head(ts)) < 0 THEN -Pnl(Head(ts)) ELSE 0)
         + GrossLoss(Tail(ts))

\* C26: the profit_factor a run reports is 0 whenever the gross loss over
\* its closed trades is 0, even with a gross profit above 0; otherwise it
\* is the gross profit divided by the gross loss.
C26_ProfitFactor ==
    bt_pc = "done" =>
        LET pf == metrics[1].profit_factor
            gp == GrossProfit(trades)
            gl == GrossLoss(trades)
        IN  IF gl = 0
            THEN pf = <<0, 1>>
            ELSE pf[2] > 0 /\ pf[1] * gl = gp * pf[2]

\* a run of winning trades only reported the factor 0
C26_Witness ==
    /\ bt_pc = "done"
    /\ GrossProfit(trades) > 0
    /\ GrossLoss(trades) = 0
    /\ metrics[1].profit_factor = <<0, 1>>

\* a run with a gain and a loss reported their quotient
C26_MixedRun ==
    /\ bt_pc = "done"
    /\ GrossProfit(trades) > 0
    /\ GrossLoss(trades) > 0
    /\ metrics[1].profit_factor # <<0, 1>>

\* the run holds an open position: the local position names a trade that
\* has no exit yet
PositionOpen == position # None /\ position[1].exit_price = None

\* C27: a run holds at most one open position and every recorded trade is
\* closed; a position opens only on a bar with signal > 0 while flat and
\* closes only on a bar with signal < 0 while open or at the forced close
\* after the last bar; a bar with signal 0 changes neither the cash nor
\* the position, and a signal > 0 while long or < 0 while flat is ignored.
C27_SingleOpenPosition ==
    /\ [](/\ Len(position) <= 1
          /\ \A k \in 1..Len(trades) : trades[k].exit_price # None)
    /\ [][LET step == bt_pc = "loop" /\ bar' = bar + 1
              sig == IF bar \in 1..Len(data) THEN SignalAt(signals, bar)
                     ELSE 0
              kept == /\ capital' = capital
                      /\ position' = position
                      /\ trades' = trades
          IN  /\ (~PositionOpen /\ PositionOpen') => (step /\ sig > 0)
              /\ (PositionOpen /\ ~PositionOpen')
                    => \/ step /\ sig < 0
                       \/ bt_pc = "loop" /\ bt_pc' = "done"
                          /\ bar > Len(data)
              /\ (step /\ sig = 0) => kept
              /\ (step /\ sig > 0 /\ PositionOpen) => kept
              /\ (step /\ sig < 0 /\ ~PositionOpen) => kept]_vars

\* a run ignored a sell signal while flat and a buy signal while long
C27_Witness ==
    /\ bt_pc = "done"
    /\ \E k \in 1..Len(bar_log) :
           bar_log[k].position = None /\ bar_log[k].signal < 0
    /\ \E k \in 1..Len(bar_log) :
           bar_log[k].position # None /\ bar_log[k].signal > 0
    /\ Len(trades) = 1

\* q is floor(cap * 0.95 / close), cap in money units
IsEntrySize(q, cap, close) ==
    /\ q >= 0
    /\ q * 20 * close * MoneyScale <= 19 * cap
    /\ 19 * cap < (q + 1) * 20 * close * MoneyScale

\* C31: on a bar with signal > 0 and no open position the entry size is
\* floor(cash * 0.95 / close); the position is opened, and the cash debited
\* by size * close * (1 + commission), only if that cost is at most the
\* cash, else nothing changes; the cash is never negative.
C31_EntryStep ==
    /\ [](capital >= 0)
    /\ [][(/\ bt_pc = "loop" /\ bar' = bar + 1
           /\ SignalAt(signals, bar) > 0
           /\ position = None)
          => \E q \in 0..(capital \div MoneyScale) :
                 /\ IsEntrySize(q, capital, data[bar])
                 /\ LET cost == q * data[bar] * (MoneyScale + bt_commission)
                    IN  IF cost <= capital
                        THEN /\ position' # None
                             /\ position'[1].quantity = q
                             /\ position'[1].entry_price = data[bar]
                             /\ position'[1].exit_price = None
                             /\ capital' = capital - cost
                        ELSE /\ position' = None
                             /\ capital' = capital
                 /\ trades' = trades]_vars

\* one run was refused an entry of at least one share that it could not
\* pay with its commission, and opened a position on a later bar
C31_Witness ==
    /\ bt_pc = "done"
    /\ \E k \in 1..Len(bar_log) :
           /\ bar_log[k].signal > 0
           /\ bar_log[k].position = None
           /\ PositionAfterBar(k) = None
           /\ EntryQuantity(bar_log[k].capital, data[k]) >= 1
    /\ \E k \in 1..Len(bar_log) :
           /\ bar_log[k].signal > 0
           /\ bar_log[k].position = None
           /\ PositionAfterBar(k) # None

\* C32: the equity curve has one point per bar processed, in the order of
\* the bars, each taken before the bar's signal is acted on: its cash is
\* the cash the bar started with, and its equity is that cash when flat
\* and that cash + (close - entry price) * quantity when a position is
\* open.
C32_EquityCurvePoints ==
    /\ Len(equity_curve) = Len(bar_log)
    /\ bt_pc = "done" => Len(equity_curve) = Len(data)
    /\ \A k \in 1..Len(equity_curve) :
           LET point == equity_curve[k]
               before == bar_log[k]
           IN  /\ point.timestamp = k
               /\ point.capital = before.capital
               /\ point.equity =
                      IF before.position = None
                      THEN before.capital
                      ELSE before.capital
                           + (data[k] - before.position[1].entry_price)
                             * before.position[1].quantity * MoneyScale

\* a run of three bars took a point while long at a close other than the
\* entry price
C32_Witness ==
    /\ bt_pc = "done"
    /\ Len(equity_curve) = 3
    /\ \E k \in 1..3 :
           /\ bar_log[k].position # None
           /\ bar_log[k].position[1].quantity >= 1
           /\ data[k] # bar_log[k].position[1].entry_price
           /\ equity_curve[k].equity # equity_curve[k].capital

\* C33: each equity point is the mark-to-market equity, the cash plus
\* quantity * close of the open position, so that the point after an entry
\* differs from the equity before it only by the commission paid.
C33_MarkToMarketEquity ==
    \A k \in 1..Len(equity_curve) :
        LET before == bar_log[k]
        IN  equity_curve[k].equity =
                IF before.position = None
                THEN before.capital
                ELSE before.capital
                     + before.position[1].quantity * data[k] * MoneyScale

\* C38: run_backtest starts from a clean state on a reused engine: the
\* call resets capital to initial_capital and empties the trade list and
\* the equity curve, the metrics of every call are those of a call with
\* the same series and signals on a new engine with the same
\* initial_capital and commission, and two consecutive calls with the same
\* inputs return equal metrics.
C38_RunsStartClean ==
    /\ [](bt_pc = "done"
             => LET k == Len(run_log)
                IN  /\ k >= 1
                    /\ run_log[k].data = data
                    /\ run_log[k].signals = signals
                    /\ run_log[k].metrics = metrics[1]
                    /\ metrics[1]
                           = run_backtest(bt_initial_capital, bt_commission,
                                          data, signals).ret
                    /\ (/\ k > 1
                        /\ run_log[k - 1].data = data
                        /\ run_log[k - 1].signals = signals)
                       => metrics[1] = run_log[k - 1].metrics)
    /\ [][/\ (bt_pc # "loop" /\ bt_pc' = "loop")
             => /\ capital' = bt_initial_capital
                /\ trades' = << >>
                /\ equity_curve' = << >>
          /\ SubSeq(run_log', 1, Len(run_log)) = run_log]_vars

\* an engine that a run left with a trade and other capital ran the same
\* inputs again
C38_Witness ==
    /\ Len(run_log) = 2
    /\ run_log[1].data = run_log[2].data
    /\ run_log[1].signals = run_log[2].signals
    /\ run_log[1].metrics.total_trades >= 1
    /\ run_log[1].metrics.final_capital # bt_initial_capital
    /\ run_log[2].metrics = run_log[1].metrics

\* an engine ran the round trips after a run on another series
C38_OtherFirst ==
    /\ Len(run_log) = 2
    /\ run_log[1].data # run_log[2].data
    /\ run_log[1].metrics.total_trades >= 1
    /\ run_log[2].metrics.total_trades = 2

\* the sum over the trades ts of quantity * (entry price + exit price)
RECURSIVE Turnover(_)
Turnover(ts) ==
    IF ts = << >> THEN 0
    ELSE Head(ts).quantity * (Head(ts).entry_price + Head(ts).exit_price[1])
         + Turnover(Tail(ts))

\* C39: when run_backtest returns, final_capital is initial_capital plus
\* the P&L of all closed trades minus commission times the sum over the
\* trades of quantity * (entry_price + exit_price); with commission 0,
\* final_capital - initial_capital is total_pnl.
C39_CashAccountingCloses ==
    bt_pc = "done" =>
        /\ metrics[1].final_capital
               = bt_initial_capital + SumPnl(trades)
                 - bt_commission * Turnover(trades)
        /\ metrics[1].final_capital = capital
        /\ bt_commission = 0
              => metrics[1].final_capital - bt_initial_capital
                     = metrics[1].total_pnl

\* a run with commission closed two trades of at least one share
C39_Witness ==
    /\ bt_pc = "done"
    /\ bt_commission > 0
    /\ Len(trades) = 2
    /\ \A k \in 1..2 : trades[k].quantity >= 1
    /\ metrics[1].final_capital - bt_initial_capital # metrics[1].total_pnl

\* C40: every trade the backtest opens and records has quantity >= 1: an
\* entry signal on a bar where floor(cash * 0.95 / close) is 0 opens no
\* position and adds nothing to the trade list or to total_trades.
C40_NoEmptyTrades ==
    /\ position # None => position[1].quantity >= 1
    /\ \A k \in 1..Len(trades) : trades[k].quantity >= 1
    /\ bt_pc = "done"
          => metrics[1].total_trades
                 = Cardinality({k \in EntryBars :
                                   EntryQuantity(bar_log[k].capital, data[k])
                                       >= 1})

\* the run of the end-to-end scenario has returned
ScenarioDone ==
    /\ bt_pc = "done"
    /\ bt_initial_capital = ScenarioCapital * MoneyScale
    /\ bt_commission = 1
    /\ data = ScenarioData
    /\ signals = ScenarioSignals

\* C10: with capital 100,000, commission 0.1 %, closes 100 then 110 and
\* signals buy then sell, the run opens 950 shares at 100 for a cost of
\* 95,095, ends with exactly one trade and reports win_rate = 1.
C10_ScenarioEntry ==
    ScenarioDone =>
        /\ Len(trades) = 1
        /\ trades[1].entry_time = 1
        /\ trades[1].entry_price = 100
        /\ trades[1].quantity = 950
        /\ bar_log[2].capital = bt_initial_capital - 95095 * MoneyScale
        /\ metrics[1].total_trades = 1
        /\ metrics[1].win_rate = <<1, 1>>

C10_Witness ==
    /\ ScenarioDone
    /\ trades # << >>
    /\ trades[1].exit_price = Some(110)
    /\ bar_log[2].position # None

\* the run of the end-to-end scenario closed its position on the second bar:
\* what the exit added to the capital
ScenarioProceeds == capital - bar_log[2].capital

\* C11 as stated: in the end-to-end scenario the position is closed at 110
\* for proceeds of 104,391.55 (to the cent) and the run reports a
\* total_return of 0.0429 (to four decimals).
C11_ScenarioExitAsStated ==
    ScenarioDone =>
        /\ trades[1].exit_price = Some(110)
        /\ Abs(ScenarioProceeds - 104391550) <= 5
        /\ 2 * Abs(10000 * metrics[1].total_return[1]
                      - 429 * metrics[1].total_return[2])
               <= metrics[1].total_return[2]

\* C11, amended: in the end-to-end scenario the position is closed at 110
\* for proceeds of 950 * 110 * 0.999 = 104,395.50, the final capital is
\* 109,300.50 and total_return is 9,300.50 / 100,000 = 0.093005.
C11_ScenarioExit ==
    ScenarioDone =>
        /\ trades[1].exit_price = Some(110)
        /\ trades[1].exit_time = Some(2)
        /\ ScenarioProceeds = 104395500
        /\ capital = 109300500
        /\ metrics[1].final_capital = 109300500
        /\ metrics[1].total_return = <<18601, 200000>>

\* the scenario run has returned after closing its position by the sell
\* signal of the second bar, with more capital than it started with
C11_Witness ==
    /\ ScenarioDone
    /\ Len(trades) = 1
    /\ bar_log[2].signal < 0
    /\ trades[1].exit_time = Some(2)
    /\ capital > bt_initial_capital

-----------------------------------------------------------------------------
(* Optimizer: properties *)

\* a search has returned; a grid search returns no param_distribution
SearchReturned == opt_pc = "done"
GridReturned == SearchReturned /\ "param_distribution" \notin DOMAIN opt_ret[1]
MonteCarloReturned ==
    SearchReturned /\ "param_distribution" \in DOMAIN opt_ret[1]

\* what a backtest of the optimizer's series under params returns
MetricsOf(params) ==
    run_backtest(bt_initial_capital, bt_commission, opt_data,
                 RuleSignals(strategy[params], opt_data)).ret

\* the evaluations, by their place in the evaluation order, that raised no
\* error: the strategy returned signals and the metrics carry the metric
Successful ==
    {k \in 1..Len(eval_log) :
        /\ ~strategy[eval_log[k].params].raises
        /\ opt_metric \in DOMAIN MetricsOf(eval_log[k].params)}

MetricAt(k) == MetricsOf(eval_log[k].params)[opt_metric]

\* the earliest successful evaluation whose metric no other one exceeds
FirstMax ==
    CHOOSE k \in Successful :
        /\ \A j \in Successful : ~RatSignedGT(MetricAt(j), MetricAt(k))
        /\ \A j \in Successful :
              j < k => RatSignedGT(MetricAt(k), MetricAt(j))

\* C12: when grid_search or monte_carlo_simulation returns, best_params,
\* best_metric and best_results are those of the earliest successful
\* evaluation whose metric equals the maximum over all successful
\* evaluations; a later evaluation with an equal metric does not replace it.
C12_FirstMaxSelection ==
    (SearchReturned /\ Successful # {}) =>
        /\ opt_ret[1].best_params = Some(eval_log[FirstMax].params)
        /\ opt_ret[1].best_metric = Some(MetricAt(FirstMax))
        /\ opt_ret[1].best_results
              = Some(Tagged(MetricsOf(eval_log[FirstMax].params),
                            eval_log[FirstMax].params))

\* a search has returned in which two successful evaluations of different
\* parameters tie at the maximum, and the earlier one is reported
C12_Witness ==
    /\ SearchReturned
    /\ \E j, k \in Successful :
          /\ j < k
          /\ j = FirstMax
          /\ MetricAt(j) = MetricAt(k)
          /\ eval_log[j].params # eval_log[k].params
          /\ MetricsOf(eval_log[j].params) # MetricsOf(eval_log[k].params)
          /\ opt_ret[1].best_params = Some(eval_log[j].params)

\* the place of value v in the value list vs
Pos(vs, v) == CHOOSE j \in 1..Len(vs) : vs[j] = v

\* assignment p comes before assignment q in the order of the grid: they
\* agree on the parameters declared before some parameter, whose value in
\* p stands earlier in its list than its value in q
GridBefore(grid, p, q) ==
    \E k \in 1..Len(grid) :
        /\ \A j \in 1..(k - 1) : p[grid[j][1]] = q[grid[j][1]]
        /\ Pos(grid[k][2], p[grid[k][1]]) < Pos(grid[k][2], q[grid[k][1]])

RECURSIVE GridSize(_)
GridSize(grid) ==
    IF grid = << >> THEN 1 ELSE Len(Head(grid)[2]) * GridSize(Tail(grid))

\* C13: grid_search evaluates exactly the Cartesian product of the value
\* lists, each combination once, in the order the parameters were declared
\* with the last-declared parameter varying fastest (a 2x2 grid gives 4
\* evaluations); when no evaluation fails, all_results has one entry per
\* combination in that order, each tagged with its parameter assignment.
C13_GridOrder ==
    GridReturned =>
        /\ Len(eval_log) = GridSize(param_grid)
        /\ \A k \in 1..Len(eval_log) :
              /\ DOMAIN eval_log[k].params
                    = {param_grid[j][1] : j \in 1..Len(param_grid)}
              /\ \A j \in 1..Len(param_grid) :
                    \E i \in 1..Len(param_grid[j][2]) :
                        eval_log[k].params[param_grid[j][1]]
                            = param_grid[j][2][i]
        /\ \A k, l \in 1..Len(eval_log) :
              k < l => GridBefore(param_grid, eval_log[k].params,
                                  eval_log[l].params)
        /\ (\A k \in 1..Len(eval_log) : ~eval_log[k].raised) =>
              /\ Len(opt_ret[1].all_results) = Len(eval_log)
              /\ \A k \in 1..Len(eval_log) :
                    opt_ret[1].all_results[k]
                        = Tagged(MetricsOf(eval_log[k].params),
                                 eval_log[k].params)

\* a search of the 2x2 grid that declares b, with values 2 then 1, before
\* a has returned after four evaluations, none of which failed
C13_Witness ==
    /\ GridReturned
    /\ Len(param_grid) = 2
    /\ param_grid[1] = <<"b", <<2, 1>>>>
    /\ Len(eval_log) = 4
    /\ \A k \in 1..4 : ~eval_log[k].raised
    /\ eval_log[2].params = [a |-> 2, b |-> 2]
    /\ eval_log[3].params = [a |-> 1, b |-> 1]
    /\ Len(opt_ret[1].all_results) = 4

\* C14: in grid_search a combination whose evaluation raises an error
\* anywhere in the per-combination step is skipped: it is neither in
\* all_results nor in the best tracking, the search still returns, and
\* every combination is evaluated.
C14_FailedCombinationSkipped ==
    GridReturned =>
        /\ Len(eval_log) = GridSize(param_grid)
        /\ \A k \in 1..Len(eval_log) :
              eval_log[k].raised =>
                  /\ \A j \in 1..Len(opt_ret[1].all_results) :
                        opt_ret[1].all_results[j].params
                            # eval_log[k].params
                  /\ opt_ret[1].best_params # Some(eval_log[k].params)

\* C15: the optimizer's evaluations share no mutable state, each runs on
\* an engine of its own, so with the steps of two evaluations interleaved
\* each evaluation returns the metrics it returns when run alone.
C15_EvaluationsIndependent ==
    \A w \in Workers :
        pool[w].pc = "done" =>
            pool[w].ret
                = Some(run_backtest(bt_initial_capital, bt_commission,
                                    opt_data, pool[w].signals).ret)

-----------------------------------------------------------------------------
(* Backtest engine: malformed input *)

\* the values drawn for the parameter declared by item r of param_ranges
Drawn(r) ==
    {eval_log[k].params[param_ranges[r][1]] : k \in 1..Len(eval_log)}

\* C25: in a Monte Carlo run every value sampled for a parameter declared
\* with integer bounds (lo, hi) is an integer of lo..hi, both lo and hi are
\* among the values an iteration can draw (the bounds (1, 5) yield exactly
\* 1..5), and the results recorded never outnumber n_iterations.
C25_SamplesInRange ==
    param_ranges # << >> =>
        /\ \A r \in 1..Len(param_ranges) :
               LET name == param_ranges[r][1]
                   lo == param_ranges[r][2]
                   hi == param_ranges[r][3]
               IN  /\ \A v \in Drawn(r) : v \in Int /\ lo <= v /\ v <= hi
                   /\ {ps[name] : ps \in Samples(param_ranges)} = lo..hi
        /\ Len(results) <= n_iterations
        /\ Len(eval_log) <= n_iterations

\* a run over the bounds (1, 5) drew both ends and recorded every iteration
C25_Witness ==
    /\ param_ranges = WideRanges
    /\ {1, 5} \subseteq Drawn(1)
    /\ n_iterations = MaxIterations
    /\ Len(results) = n_iterations
    /\ MonteCarloReturned

\* the bars [w[1], w[2]) of the optimizer's series
Window(w) == SubSeq(opt_data, w[1] + 1, w[2])

\* C28: the k-th iteration of a walk-forward optimization (k = 0, 1, ...)
\* trains on the bars [k*test, k*test + train) and tests on the bars
\* [k*test + train, k*test + train + test); every window lies inside the
\* series, each test window starts where its training window ends, and
\* the test window of the next iteration starts where this one ends.
C28_WindowLayout ==
    LET G == Len(product(param_values(param_grid)))
    IN  \A k \in 1..Len(wf_results) :
            LET r == wf_results[k]
                from == (k - 1) * test_period
                first == (k - 1) * (G + 1)
            IN  /\ r.train_period = <<from, from + train_period>>
                /\ r.test_period = <<from + train_period,
                                     from + train_period + test_period>>
                /\ 0 <= r.train_period[1]
                /\ r.test_period[2] <= Len(opt_data)
                /\ r.test_period[1] = r.train_period[2]
                /\ k < Len(wf_results)
                      => wf_results[k + 1].test_period[1] = r.test_period[2]
                /\ \A j \in 1..G :
                       wf_calls[first + j].closes = Window(r.train_period)
                /\ wf_calls[first + G + 1].closes = Window(r.test_period)

\* a call with training windows of two bars and test windows of one bar
\* recorded two iterations, whose training windows overlap, and returned
C28_Witness ==
    /\ wf_pc = "done"
    /\ train_period = 2 /\ test_period = 1
    /\ Len(wf_results) = 2
    /\ wf_results[2].train_period = <<1, 3>>
    /\ wf_results[2].test_period = <<3, 4>>

\* C29: walk_forward_optimization terminates for every train_period >= 0
\* and test_period >= 0: the start index strictly increases with each
\* iteration, and the loop stops at the first start for which
\* start + train_period + test_period exceeds the length of the series.
C29_WalkForwardTerminates ==
    /\ [](wf_pc = "done"
             => /\ start + train_period + test_period > Len(opt_data)
                /\ \A k \in 1..Len(wf_results) :
                       wf_results[k].test_period[2] <= Len(opt_data))
    /\ [][(wf_pc = "test" /\ wf_pc' = "loop") => start' > start]_vars

\* C30: in each walk-forward iteration the grid search on the training
\* window makes its runs first, then the test window is run exactly once,
\* with the best parameters that this search returned; the record of the
\* iteration holds those parameters, the best training metric and the
\* metric of the test run.
C30_TrainThenTestOnce ==
    wf_pc # "idle" =>
        LET G == Len(product(param_values(param_grid)))
        IN  /\ Len(wf_calls)
                 = Len(wf_results) * (G + 1)
                   + (IF wf_pc = "test" THEN G
                      ELSE IF wf_pc = "raised" THEN G + 1 ELSE 0)
            /\ \A k \in 1..Len(wf_results) :
                   LET r == wf_results[k]
                       first == (k - 1) * (G + 1)
                       gs == grid_search(FreshRun(bt_initial_capital),
                                         strategy, param_grid,
                                         Window(r.train_period),
                                         bt_initial_capital, bt_commission,
                                         opt_metric).ret
                       test == run_backtest(
                                   bt_initial_capital, bt_commission,
                                   Window(r.test_period),
                                   RuleSignals(
                                       strategy[ParamsOrEmpty(
                                                    gs.best_params)],
                                       Window(r.test_period))).ret
                   IN  /\ \A j \in 1..G :
                              wf_calls[first + j].phase = "train"
                       /\ wf_calls[first + G + 1].phase = "test"
                       /\ wf_calls[first + G + 1].params = gs.best_params
                       /\ r.best_params = gs.best_params
                       /\ r.train_metric = gs.best_metric
                       /\ r.test_metric = test[opt_metric]

\* two iterations of one call chose different parameters, each tested
\* with its own
C30_Witness ==
    /\ wf_pc = "done"
    /\ Len(wf_results) = 2
    /\ wf_results[1].best_params # None
    /\ wf_results[2].best_params # None
    /\ wf_results[1].best_params # wf_results[2].best_params
    /\ wf_calls[Len(wf_calls)].params = wf_results[2].best_params

\* C16: run_backtest given fewer signals than bars fails fast: no bar is
\* simulated, no equity point or trade is recorded, the capital is not
\* changed and no metrics are returned.
C16_ShortSignalsFailFast ==
    (bt_pc # "idle" /\ Len(signals) < Len(data)) =>
        /\ bar_log = << >>
        /\ equity_curve = << >>
        /\ trades = << >>
        /\ capital = bt_initial_capital
        /\ metrics = None

=============================================================================
